---- MODULE Spec2Model ----
(***************************************************************************)
(* Model of the TMDB proxy: the outbound rate limiter of TMDBService, the  *)
(* category mapping table, and the aggregation operations of               *)
(* CategoryService (trending, anticipated, streaming-now, combined         *)
(* upcoming and the simple mood/awards/studio/network/genre categories).   *)
(*                                                                         *)
(* The limiter reads Date.now() in milliseconds and only uses differences, *)
(* so its clock starts at 0.  The category service only uses the calendar: *)
(* its clock is kept in hours since the epoch, and so is the time zone     *)
(* offset.  Dates are 'YYYY-MM-DD' strings in the source; here a date      *)
(* string is the number of the day it names (day d parses to UTC midnight  *)
(* of day d), a missing field, or a string that does not parse.            *)
(***************************************************************************)
EXTENDS Integers, Sequences, FiniteSets, Bags, TLC

VARIABLES
  now,               \* Date.now() of the limiter, in ms
  wall,              \* new Date() of the category service, in hours since the epoch (UTC)
  tz,                \* offset of the process time zone from UTC, in hours (east positive)
  requestTimes,      \* TMDBService.requestTimes of every router's instance
  sleeping,          \* per instance: the pending setTimeout wake-up times of suspended callers
  CATEGORY_MAPPINGS, \* the mapping table of config/categories
  pc,                \* position of the request being served
  op,                \* the CategoryService operation serving it
  args,              \* its arguments
  fetched,           \* settled provider sub-fetches of the request
  calls,             \* provider endpoints called for the request, in order
  work,              \* intermediate list of the operation (candidates still to process, kept items)
  response           \* what the operation returned or threw

vars == <<now, wall, tz, requestTimes, sleeping, CATEGORY_MAPPINGS, pc, op, args,
          fetched, calls, work, response>>

rateVars == <<requestTimes, sleeping>>
reqVars == <<pc, op, args, fetched, calls, work, response>>
envVars == <<now, wall, tz, requestTimes, sleeping, CATEGORY_MAPPINGS>>

----------------------------------------------------------------------------
(* Bounds of the model *)

TickMs == 5000          \* clock granularity of the single-instance limiter runs
MaxNow == 15000         \* the limiter runs stop the clock here
MaxWaiting == 2         \* suspended callers per instance
TodayUTC == 400         \* the UTC day on which requests are served
MaxIndex == 99          \* the last position of a merged trending list
MaxCallers == 42        \* concurrent provider calls of one request on one instance

----------------------------------------------------------------------------
(* Generic helpers *)

RECURSIVE SeqSum(_)
SeqSum(s) == IF s = <<>> THEN 0 ELSE Head(s) + SeqSum(Tail(s))

Range(s) == {s[i] : i \in DOMAIN s}

Min2(a, b) == IF a <= b THEN a ELSE b
Max2(a, b) == IF a >= b THEN a ELSE b

----------------------------------------------------------------------------
(* TMDBService: sliding-window rate limiter *)

maxRequestsPerWindow == 40
windowSizeMs == 10000

\* every router module constructs its own TMDBService
Routers == {"categories", "upcoming"}

\* requestTimes.filter(time => now - time < windowSizeMs)
FilterWindow(times) == SelectSeq(times, LAMBDA time : now - time < windowSizeMs)

\* a limit test that lets one more call through
ExceedsLimit(times) == Len(times) > maxRequestsPerWindow

\* the limit test of enforceRateLimit
AtLimit(times) == Len(times) >= maxRequestsPerWindow

\* One synchronous run of enforceRateLimit on instance r at time now, by a
\* caller whose timer (if it had one) is already removed: rest is the
\* instance's remaining timers.
enforceRateLimit(r, rest) ==
  LET times == FilterWindow(requestTimes[r])
      waitTime == IF AtLimit(times) THEN windowSizeMs - (now - times[1]) ELSE 0
  IN IF AtLimit(times) /\ waitTime > 0
     THEN /\ BagCardinality(rest) < MaxWaiting
          /\ requestTimes' = [requestTimes EXCEPT ![r] = times]
          /\ sleeping' = [sleeping EXCEPT ![r] = rest (+) SetToBag({now + waitTime})]
     ELSE /\ requestTimes' = [requestTimes EXCEPT ![r] = Append(times, now)]
          /\ sleeping' = [sleeping EXCEPT ![r] = rest]

\* makeRequest: a caller enters enforceRateLimit
MakeRequest(r) ==
  /\ enforceRateLimit(r, sleeping[r])
  /\ UNCHANGED <<now, wall, tz, CATEGORY_MAPPINGS, reqVars>>

\* the setTimeout of a suspended caller fires (never early) and the caller
\* runs enforceRateLimit again
TimerFires(r) ==
  /\ \E w \in BagToSet(sleeping[r]) :
        /\ w <= now
        /\ enforceRateLimit(r, sleeping[r] (-) SetToBag({w}))
  /\ UNCHANGED <<now, wall, tz, CATEGORY_MAPPINGS, reqVars>>

\* the clock advances by d ms
Tick(d) ==
  /\ now + d <= MaxNow
  /\ now' = now + d
  /\ UNCHANGED <<wall, tz, rateVars, CATEGORY_MAPPINGS, reqVars>>

\* The limiter only uses differences of Date.now() values, so the passing of
\* d ms can also be seen from the present: every recorded timestamp and every
\* timer moves d ms into the past.  A timestamp that has left the window is
\* kept at the edge of the window, a timer that is due is kept at now.
AgeTimes(times, d) ==
  [i \in DOMAIN times |-> Max2(times[i] - d, now - windowSizeMs)]

AgeTimers(timers, d) ==
  LET aged(w) == Max2(w - d, now)
      wakes == {aged(w) : w \in BagToSet(timers)}
  IN [a \in wakes |->
        BagCardinality([w \in {x \in BagToSet(timers) : aged(x) = a} |-> timers[w]])]

\* d ms pass, seen from the present
Elapse(d) ==
  /\ requestTimes' = [r \in Routers |-> AgeTimes(requestTimes[r], d)]
  /\ sleeping' = [r \in Routers |-> AgeTimers(sleeping[r], d)]
  /\ UNCHANGED <<now, wall, tz, CATEGORY_MAPPINGS, reqVars>>

\* calls admitted by instance r within the trailing window (now - W, now]
AdmittedInWindow(r) ==
  Cardinality({i \in DOMAIN requestTimes[r] : now - requestTimes[r][i] < windowSizeMs})

RECURSIVE SumOver(_, _)
SumOver(S, f) ==
  IF S = {} THEN 0
  ELSE LET x == CHOOSE y \in S : TRUE IN f[x] + SumOver(S \ {x}, f)

ProcessAdmittedInWindow == SumOver(Routers, [r \in Routers |-> AdmittedInWindow(r)])

----------------------------------------------------------------------------
(* config/categories: the mapping table and its helpers *)

\* JavaScript values that are not plain mapping objects
JSNull == [jstype |-> "null"]
JSFunction(name) == [jstype |-> "function", name |-> name]

IsNull(v) == "jstype" \in DOMAIN v /\ v.jstype = "null"
TypeofObject(v) == "jstype" \notin DOMAIN v

\* members every object literal inherits from Object.prototype
ObjectPrototypeProps ==
  {"constructor", "toString", "valueOf", "hasOwnProperty", "isPrototypeOf",
   "propertyIsEnumerable", "toLocaleString"}

MoodMappings ==
  ("family-movie-night" :>
     ("genres" :> <<10751>> @@ "sort_by" :> "popularity.desc" @@ "media_type" :> "movie")) @@
  ("rom-com-classics" :>
     ("genres" :> <<10749, 35>> @@ "sort_by" :> "vote_average.desc" @@
      "vote_average.gte" :> "7.0" @@ "media_type" :> "movie")) @@
  ("psychological-thrillers" :>
     ("genres" :> <<53>> @@ "with_keywords" :> "9715,10349" @@
      "sort_by" :> "vote_average.desc" @@ "vote_average.gte" :> "6.5" @@
      "media_type" :> "movie")) @@
  ("feel-good-shows" :>
     ("genres" :> <<35>> @@ "media_type" :> "tv" @@ "sort_by" :> "popularity.desc" @@
      "vote_average.gte" :> "7.0")) @@
  ("musicals" :>
     ("genres" :> <<10402>> @@ "sort_by" :> "popularity.desc" @@ "media_type" :> "movie")) @@
  ("halloween" :>
     ("genres" :> <<27>> @@ "sort_by" :> "popularity.desc" @@ "media_type" :> "movie")) @@
  ("bingeable-series" :>
     ("media_type" :> "tv" @@ "sort_by" :> "popularity.desc" @@
      "vote_average.gte" :> "7.5" @@ "with_runtime.gte" :> "30"))

AwardMappings ==
  ("oscar-winners" :>
     ("with_keywords" :> "210024" @@ "sort_by" :> "vote_average.desc" @@
      "vote_average.gte" :> "7.0" @@ "media_type" :> "movie")) @@
  ("top-grossing" :>
     ("sort_by" :> "revenue.desc" @@ "revenue.gte" :> "100000000" @@
      "media_type" :> "movie")) @@
  ("imdb-top-250" :>
     ("sort_by" :> "vote_average.desc" @@ "vote_count.gte" :> "10000" @@
      "vote_average.gte" :> "8.0" @@ "media_type" :> "movie")) @@
  ("blockbuster-shows" :>
     ("media_type" :> "tv" @@ "sort_by" :> "popularity.desc" @@
      "vote_average.gte" :> "8.0" @@ "vote_count.gte" :> "1000")) @@
  ("top-rated" :>
     ("sort_by" :> "vote_average.desc" @@ "vote_average.gte" :> "8.0" @@
      "vote_count.gte" :> "5000"))

StudioMapping(id) == ("with_companies" :> id @@ "sort_by" :> "popularity.desc")

StudioMappings ==
  ("disney" :> StudioMapping("2")) @@ ("pixar" :> StudioMapping("3")) @@
  ("marvel" :> StudioMapping("420")) @@ ("dc" :> StudioMapping("9993")) @@
  ("universal" :> StudioMapping("33")) @@ ("lucasfilm" :> StudioMapping("1")) @@
  ("illumination" :> StudioMapping("6704")) @@ ("dreamworks" :> StudioMapping("521"))

NetworkMapping(id) ==
  ("with_networks" :> id @@ "media_type" :> "tv" @@ "sort_by" :> "popularity.desc")

NetworkMappings ==
  ("netflix" :> NetworkMapping("213")) @@ ("apple-tv" :> NetworkMapping("2552")) @@
  ("disney-plus" :> NetworkMapping("2739")) @@ ("prime-video" :> NetworkMapping("1024")) @@
  ("hbo" :> NetworkMapping("49")) @@ ("paramount-plus" :> NetworkMapping("4330"))

\* a genre entry that names its media type
GenreMappingForMovies(id) ==
  ("genres" :> <<id>> @@ "sort_by" :> "popularity.desc" @@ "media_type" :> "movie")

GenreMapping(id) == ("genres" :> <<id>> @@ "sort_by" :> "popularity.desc")

GenreMappings ==
  ("action" :> GenreMapping(28)) @@ ("adventure" :> GenreMapping(12)) @@
  ("animation" :> GenreMapping(16)) @@ ("comedy" :> GenreMapping(35)) @@
  ("crime" :> GenreMapping(80)) @@ ("documentary" :> GenreMapping(99)) @@
  ("drama" :> GenreMapping(18)) @@ ("family" :> GenreMapping(10751)) @@
  ("fantasy" :> GenreMapping(14)) @@ ("history" :> GenreMapping(36)) @@
  ("horror" :> GenreMapping(27)) @@ ("music" :> GenreMapping(10402)) @@
  ("mystery" :> GenreMapping(9648)) @@ ("romance" :> GenreMapping(10749)) @@
  ("science-fiction" :> GenreMapping(878)) @@ ("thriller" :> GenreMapping(53)) @@
  ("war" :> GenreMapping(10752)) @@ ("western" :> GenreMapping(37))

\* the object literal CATEGORY_MAPPINGS as the module is loaded
CategoryMappingsLiteral ==
  ("mood" :> MoodMappings) @@ ("awards" :> AwardMappings) @@
  ("studios" :> StudioMappings) @@ ("networks" :> NetworkMappings) @@
  ("genres" :> GenreMappings)

\* obj[key] on an object literal: an own property, else an inherited member
\* of Object.prototype, else undefined (rendered as null by "|| null")
PropertyGet(obj, key) ==
  IF key \in DOMAIN obj THEN obj[key]
  ELSE IF key \in ObjectPrototypeProps THEN JSFunction(key)
  ELSE JSNull

getCategoryMapping(categoryType, categoryName) ==
  IF IsNull(PropertyGet(CATEGORY_MAPPINGS, categoryType)) THEN JSNull
  ELSE PropertyGet(CATEGORY_MAPPINGS[categoryType], categoryName)

isValidCategory(categoryType, categoryName) ==
  ~IsNull(getCategoryMapping(categoryType, categoryName))

getMediaType(categoryType, categoryName) ==
  LET mapping == getCategoryMapping(categoryType, categoryName)
  IN IF IsNull(mapping) THEN "null"
     ELSE IF "media_type" \in DOMAIN mapping THEN mapping["media_type"] ELSE "null"

\* decimal digits of a non-negative integer, as a sequence of characters
RECURSIVE ToChars(_)
ToChars(n) ==
  LET digit == <<"0", "1", "2", "3", "4", "5", "6", "7", "8", "9">>[(n % 10) + 1]
  IN IF n < 10 THEN <<digit>> ELSE Append(ToChars(n \div 10), digit)

\* Array.prototype.join(',')
RECURSIVE JoinComma(_)
JoinComma(ids) ==
  IF ids = <<>> THEN <<>>
  ELSE IF Len(ids) = 1 THEN ToChars(ids[1])
  ELSE ToChars(ids[1]) \o <<",">> \o JoinComma(Tail(ids))

\* the conversion edits the mapping object it was handed
ConvertedInPlace(mapping) ==
  IF "genres" \in DOMAIN mapping
  THEN [k \in (DOMAIN mapping \ {"genres"}) |-> mapping[k]]
         @@ ("with_genres" :> JoinComma(mapping["genres"]))
  ELSE mapping

\* const params = { ...mapping }: the conversion edits a copy, the mapping
\* object it was handed is afterwards what it was
MappingAfterConvert(mapping) == mapping

convertToTMDBParams(mapping) ==
  IF IsNull(mapping) \/ ~TypeofObject(mapping) THEN <<>>
  ELSE LET joined == IF "genres" \in DOMAIN mapping
                     THEN [k \in (DOMAIN mapping \ {"genres"}) |-> mapping[k]]
                          @@ ("with_genres" :> JoinComma(mapping["genres"]))
                     ELSE mapping
       IN [k \in (DOMAIN joined \ {"media_type"}) |-> joined[k]]

----------------------------------------------------------------------------
(* JavaScript numbers and dates *)

\* (1000 * 3600 * 24) ms, in hours
hoursPerDay == 24

\* a number-valued JavaScript expression: a number, NaN or null
Num(v) == [kind |-> "num", v |-> v]
NaN == [kind |-> "nan", v |-> 0]
Null == [kind |-> "null", v |-> 0]

\* relational operators coerce null to 0 and are false on NaN
ToNumber(x) == IF x.kind = "null" THEN 0 ELSE x.v
LessEq(x, n) == x.kind # "nan" /\ ToNumber(x) <= n
GreaterEq(x, n) == x.kind # "nan" /\ ToNumber(x) >= n
\* x || fallback, for a number x
OrElse(x, fallback) == IF x.kind = "num" /\ x.v # 0 THEN x.v ELSE fallback

\* a date string of a provider item
NoDate == [kind |-> "missing", day |-> 0]
BadDate == [kind |-> "invalid", day |-> 0]
Day(d) == [kind |-> "day", day |-> d]

\* !dateString
Falsy(dateString) == dateString.kind = "missing"

\* new Date(dateString).getTime(): a date-only string is UTC midnight
DateParse(dateString) ==
  IF dateString.kind = "day" THEN Num(dateString.day * hoursPerDay) ELSE NaN

\* date.setHours(0, 0, 0, 0): midnight of the local day that contains t
StartOfLocalDay(t) == ((t + tz) \div hoursPerDay) * hoursPerDay - tz

\* const today = new Date(); today.setHours(0, 0, 0, 0)
Today == StartOfLocalDay(wall)

\* the local calendar day of the process
LocalDay == (wall + tz) \div hoursPerDay

\* date.toISOString().split('T')[0]
formatDateForAPI(t) == Day(t \div hoursPerDay)

Ceil(x, d) == 0 - ((0 - x) \div d)

getDaysSinceRelease(dateString) ==
  IF Falsy(dateString) THEN Null
  ELSE IF DateParse(dateString).kind = "nan" THEN NaN
  ELSE Num((Today - StartOfLocalDay(DateParse(dateString).v)) \div hoursPerDay)

getDaysUntilRelease(dateString) ==
  IF Falsy(dateString) THEN Null
  ELSE IF DateParse(dateString).kind = "nan" THEN NaN
  ELSE Num(Ceil(StartOfLocalDay(DateParse(dateString).v) - Today, hoursPerDay))

isUpcoming(dateString) ==
  IF Falsy(dateString) THEN FALSE
  ELSE GreaterEq(DateParse(dateString), Today)

----------------------------------------------------------------------------
(* The provider (TMDB) as seen by one request *)

\* a movie of a provider list; vote_average is in tenths (80 is 8.0), wp is
\* what GET /movie/{id}/watch/providers answers for it
Movie(id, popularity, vote_average, vote_count, release_date, wp) ==
  [id |-> id, popularity |-> popularity, vote_average |-> vote_average,
   vote_count |-> vote_count, release_date |-> release_date, wp |-> wp]

\* a TV show of a provider list
Show(id, popularity, first_air_date) ==
  [id |-> id, popularity |-> popularity, first_air_date |-> first_air_date]

\* watch-provider answers: the lookup fails, or the US entry lists the ids
\* of its flatrate (subscription) providers (the field is absent when there
\* is none), ad-supported providers and rent/buy offers
WPFail == [ok |-> FALSE, us |-> FALSE, flatrate |-> <<>>, ads |-> FALSE, rental |-> FALSE]
WP(flatrate, ads, rental) ==
  [ok |-> TRUE, us |-> TRUE, flatrate |-> flatrate, ads |-> ads, rental |-> rental]
WPNoUS == [ok |-> TRUE, us |-> FALSE, flatrate |-> <<>>, ads |-> FALSE, rental |-> FALSE]

\* a provider list response
Page(results, total_results, total_pages) ==
  [ok |-> TRUE, results |-> results, total_results |-> total_results,
   total_pages |-> total_pages]
Failed == [ok |-> FALSE, results |-> <<>>, total_results |-> 0, total_pages |-> 0]
Pending == [ok |-> FALSE, results |-> <<>>, total_results |-> 0 - 1, total_pages |-> 0]

IsPending(f) == f = Pending

----------------------------------------------------------------------------
(* TMDBService.enrichWithTaglines *)

\* one item of a batch: the detail fetch of an id in failing rejects
EnrichItem(item, failing) ==
  IF item.id = 0
     \/ ("media_type" \in DOMAIN item /\ item.media_type \notin {"movie", "tv"})
  THEN item
  ELSE IF item.id \in failing THEN [tagline |-> ""] @@ item
  ELSE [tagline |-> "tagline"] @@ item

enrichWithTaglines(results, failing) ==
  [i \in DOMAIN results |-> EnrichItem(results[i], failing)]

----------------------------------------------------------------------------
(* Responses of the service *)

NoResponse == [status |-> "none"]

\* the locals of a method that loops over candidates: the candidates not yet
\* visited, the items collected so far, the ids whose lookup failed
NoWork == [queue |-> <<>>, out |-> <<>>, skipped |-> <<>>]

\* a category error that does not keep the error it wraps
createCategoryErrorWithoutCause(message, originalError) ==
  [status |-> "error", code |-> "CATEGORY_SERVICE_ERROR", message |-> message,
   originalError |-> NoResponse]

\* createCategoryError(message, originalError)
createCategoryError(message, originalError) ==
  [status |-> "error", code |-> "CATEGORY_SERVICE_ERROR", message |-> message,
   originalError |-> originalError]

\* throw new Error(`Unsupported ...: ${key}`)
UnsupportedError(key) ==
  [status |-> "error", code |-> "none", message |-> <<"Unsupported", key>>,
   originalError |-> NoResponse]

\* handleValidationErrors: res.status(400)
ValidationError ==
  [status |-> "error", code |-> "VALIDATION_ERROR", message |-> <<"Invalid input parameters">>,
   originalError |-> NoResponse]

\* the rejection of a provider call
ProviderError ==
  [status |-> "error", code |-> "TMDB_API_ERROR", message |-> <<"TMDB API Error">>,
   originalError |-> NoResponse]

----------------------------------------------------------------------------
(* Simple categories: mood, awards, studios, networks, genres *)

CategoryTypes == {"mood", "awards", "studios", "networks", "genres"}

\* the keys listed under a category type in the table literal
AllowList(categoryType) == DOMAIN CategoryMappingsLiteral[categoryType]

\* route parameters a client can send: every listed key and some that are not
UnlistedKeys == {"bogus", "invalid-category", "constructor", "toString", "Action"}
KeyUniverse == UnlistedKeys \cup UNION {AllowList(t) : t \in CategoryTypes}

\* .isLength({min: 1, max: 50}).matches(/^[a-z0-9-]+$/) on the key universe
MatchesSlug(key) == key \notin {"toString", "Action"}

\* the validator chain of the route of a category type
ValidateParam(categoryType, key) ==
  IF categoryType = "mood" THEN MatchesSlug(key)
  ELSE MatchesSlug(key) /\ key \in AllowList(categoryType)

\* provider answers to a discovery query of a simple category
CategoryPages ==
  {Page(<<>>, 0, 1),
   Page(<<Movie(1, 80, 70, 900, Day(3), WPNoUS)>>, 1, 1),
   Page(<<Movie(550, 120, 84, 25000, Day(1), WPNoUS), Movie(2, 60, 65, 100, NoDate, WPNoUS)>>, 40, 2)}

\* which detail fetches of an enrichment fail
DetailFailures == {{}, {550}, {1, 2, 3, 4, 550}}

\* the endpoint the service chooses
DiscoverEndpoint(categoryType, key, queryType) ==
  IF categoryType = "studios" THEN "/discover/movie"
  ELSE IF categoryType = "networks" THEN "/discover/tv"
  ELSE IF categoryType = "genres"
       THEN (IF queryType = "tv" THEN "/discover/tv" ELSE "/discover/movie")
  ELSE IF getMediaType(categoryType, key) = "tv" THEN "/discover/tv"
  ELSE "/discover/movie"

\* mediaType of the envelope
EnvelopeMediaType(categoryType, key, queryType) ==
  IF categoryType = "studios" THEN "movie"
  ELSE IF categoryType = "networks" THEN "tv"
  ELSE IF categoryType = "genres" THEN queryType
  ELSE getMediaType(categoryType, key)

\* GET /mood/:category, /awards/:type, /studio/:studio, /network/:network,
\* /genre/:genre up to the discovery call of getMoodContent, getAwardWinners,
\* getStudioContent, getNetworkContent, getGenreContent
RequestCategory(categoryType, key, queryType, page) ==
  /\ pc = "idle"
  /\ op' = categoryType
  /\ args' = [key |-> key, type |-> queryType, page |-> page]
  /\ fetched' = <<>>
  /\ work' = NoWork
  /\ IF ~ValidateParam(categoryType, key)
     THEN /\ response' = ValidationError
          /\ calls' = <<>>
          /\ pc' = "done"
     ELSE IF IsNull(getCategoryMapping(categoryType, key))
     THEN /\ response' = UnsupportedError(key)
          /\ calls' = <<>>
          /\ pc' = "done"
     ELSE /\ response' = NoResponse
          /\ calls' = <<[endpoint |-> DiscoverEndpoint(categoryType, key, queryType),
                         params |-> ("page" :> page) @@
                                    convertToTMDBParams(getCategoryMapping(categoryType, key))]>>
          /\ pc' = "discover"
  /\ CATEGORY_MAPPINGS' =
       IF ValidateParam(categoryType, key)
          /\ key \in DOMAIN CATEGORY_MAPPINGS[categoryType]
       THEN [CATEGORY_MAPPINGS EXCEPT ![categoryType][key] = MappingAfterConvert(@)]
       ELSE CATEGORY_MAPPINGS
  /\ UNCHANGED <<now, wall, tz, rateVars>>

\* the discovery call settles; the rest of the get...Content method runs
DiscoverSettles ==
  /\ pc = "discover"
  /\ \/ /\ response' = createCategoryError(<<"Failed to fetch", op, args.key>>, ProviderError)
        /\ fetched' = <<Failed>>
     \/ \E data \in CategoryPages, failing \in DetailFailures :
          /\ fetched' = <<data>>
          /\ response' =
               [status |-> "ok", category |-> <<op, args.key>>,
                mediaType |-> EnvelopeMediaType(op, args.key, args.type),
                page |-> args.page,
                results |-> enrichWithTaglines(data.results, failing),
                total_results |-> data.total_results,
                total_pages |-> data.total_pages]
  /\ pc' = "done"
  /\ UNCHANGED <<envVars, op, args, calls, work>>

\* res.json(result) or next(error): the request is over
Respond ==
  /\ pc = "done"
  /\ pc' = "idle"
  /\ op' = "none"
  /\ args' = <<>>
  /\ fetched' = <<>>
  /\ calls' = <<>>
  /\ work' = NoWork
  /\ response' = NoResponse
  /\ UNCHANGED envVars

----------------------------------------------------------------------------
(* Sorting: Array.prototype.sort is stable; the comparators of the service *)

\* (a, b) => (a.popularity || 0) - (b.popularity || 0)
ComparePopularityAscending(a, b) == a.popularity - b.popularity

\* (a, b) => (b.popularity || 0) - (a.popularity || 0)
ComparePopularity(a, b) == b.popularity - a.popularity

\* dateA - dateB, NaN (an invalid date on either side) counting as 0
DateDifference(a, b) ==
  IF DateParse(a).kind = "nan" \/ DateParse(b).kind = "nan" THEN 0
  ELSE DateParse(a).v - DateParse(b).v

\* (a, b) => new Date(a.release_date) - new Date(b.release_date)
CompareReleaseDate(a, b) == DateDifference(a.release_date, b.release_date)

\* '1900-01-01', long before every date of the provider
Date1900 == Day(0 - 40000)

\* the comparator of ottOriginalMovies.sort; a NaN difference counts as 0
CompareStreaming(a, b) ==
  LET scoreA == a.streaming_release_score
      scoreB == b.streaming_release_score
      daysDiffA == OrElse(a.days_since_release, 999999)
      daysDiffB == OrElse(b.days_since_release, 999999)
      dateA == DateParse(IF Falsy(a.release_date) THEN Date1900 ELSE a.release_date)
      dateB == DateParse(IF Falsy(b.release_date) THEN Date1900 ELSE b.release_date)
  IN IF scoreA # scoreB THEN scoreB - scoreA
     ELSE IF daysDiffA <= 3 /\ daysDiffB > 3 THEN 0 - 1
     ELSE IF daysDiffB <= 3 /\ daysDiffA > 3 THEN 1
     ELSE IF daysDiffA <= 7 /\ daysDiffB > 7 THEN 0 - 1
     ELSE IF daysDiffB <= 7 /\ daysDiffA > 7 THEN 1
     ELSE IF daysDiffA <= 14 /\ daysDiffB > 14 THEN 0 - 1
     ELSE IF daysDiffB <= 14 /\ daysDiffA > 14 THEN 1
     ELSE IF daysDiffA # daysDiffB THEN daysDiffA - daysDiffB
     ELSE IF dateA.kind = "nan" \/ dateB.kind = "nan" THEN 0
     ELSE IF dateA.v # dateB.v THEN dateB.v - dateA.v
     ELSE b.popularity - a.popularity

\* a.release_date || a.first_air_date
ReleaseOrAirDate(a) ==
  IF "release_date" \in DOMAIN a /\ ~Falsy(a.release_date) THEN a.release_date
  ELSE IF "first_air_date" \in DOMAIN a THEN a.first_air_date
  ELSE NoDate

\* (a, b) => new Date(a.release_date || a.first_air_date)
\*             - new Date(b.release_date || b.first_air_date)
CompareCombined(a, b) == DateDifference(ReleaseOrAirDate(a), ReleaseOrAirDate(b))

\* item[field] || fallback, for a field that may be absent
FieldOr(item, field, fallback) ==
  IF field \in DOMAIN item THEN item[field] ELSE fallback

\* sortFunctions.rating: (a, b) => (b.vote_average || 0) - (a.vote_average || 0)
CompareRating(a, b) == FieldOr(b, "vote_average", 0) - FieldOr(a, "vote_average", 0)

\* a.release_date || a.first_air_date || '1900-01-01'
DateOr1900(a) == IF Falsy(ReleaseOrAirDate(a)) THEN Date1900 ELSE ReleaseOrAirDate(a)

\* sortFunctions.date: dateB - dateA
CompareDate(a, b) == DateDifference(DateOr1900(b), DateOr1900(a))

\* a.title || a.name || '', lower-cased: a title is the list of the
\* alphabet positions of its letters
TitleOrName(a) == FieldOr(a, "title", FieldOr(a, "name", <<>>))

\* String.prototype.localeCompare on such titles
RECURSIVE localeCompare(_, _)
localeCompare(titleA, titleB) ==
  IF titleA = <<>> THEN (IF titleB = <<>> THEN 0 ELSE 0 - 1)
  ELSE IF titleB = <<>> THEN 1
  ELSE IF Head(titleA) < Head(titleB) THEN 0 - 1
  ELSE IF Head(titleA) > Head(titleB) THEN 1
  ELSE localeCompare(Tail(titleA), Tail(titleB))

\* sortFunctions.title
CompareTitle(a, b) == localeCompare(TitleOrName(a), TitleOrName(b))

Compare(order, a, b) ==
  IF order = "popularity" THEN ComparePopularity(a, b)
  ELSE IF order = "release_date" THEN CompareReleaseDate(a, b)
  ELSE IF order = "combined" THEN CompareCombined(a, b)
  ELSE IF order = "streaming" THEN CompareStreaming(a, b)
  ELSE IF order = "rating" THEN CompareRating(a, b)
  ELSE IF order = "date" THEN CompareDate(a, b)
  ELSE IF order = "title" THEN CompareTitle(a, b)
  ELSE 0

\* x goes behind every element that the comparator does not put after it
RECURSIVE InsertSorted(_, _, _)
InsertSorted(order, sorted, x) ==
  IF sorted = <<>> THEN <<x>>
  ELSE IF Compare(order, sorted[Len(sorted)], x) > 0
       THEN Append(InsertSorted(order, SubSeq(sorted, 1, Len(sorted) - 1), x),
                   sorted[Len(sorted)])
       ELSE Append(sorted, x)

RECURSIVE SortInto(_, _, _)
SortInto(order, sorted, rest) ==
  IF rest = <<>> THEN sorted
  ELSE SortInto(order, InsertSorted(order, sorted, Head(rest)), Tail(rest))

Sort(order, items) == SortInto(order, <<>>, items)

\* every entry is kept
KeepAll(items) == items

\* list.filter((m, index, self) => index === self.findIndex(x => x.id === m.id))
DedupeById(items) ==
  LET keep(i) == \A j \in 1..(i - 1) : items[j].id # items[i].id
      F[i \in 0..Len(items)] ==
        IF i = 0 THEN <<>>
        ELSE IF keep(i) THEN Append(F[i - 1], items[i]) ELSE F[i - 1]
  IN F[Len(items)]

RECURSIVE Concat(_)
Concat(lists) == IF lists = <<>> THEN <<>> ELSE Head(lists) \o Concat(Tail(lists))

----------------------------------------------------------------------------
(* Trending movies *)

maxPages == 5

\* pages the provider may answer to GET /trending/movie/week
TrendingPages ==
  {Page(<<Movie(550, 120, 84, 25000, Day(TodayUTC - 20), WPNoUS),
          Movie(1, 80, 70, 900, Day(TodayUTC - 100), WPNoUS)>>, 40, 2),
   Page(<<Movie(2, 0, 65, 100, NoDate, WPNoUS),
          Movie(550, 60, 84, 25000, Day(TodayUTC - 20), WPNoUS),
          Movie(3, 80, 81, 2000, Day(TodayUTC - 200), WPNoUS)>>, 40, 2)}

\* fetchTrendingMoviesPage: the value of the promise, null when the call failed
fetchTrendingMoviesPage(outcome) == IF outcome.ok THEN outcome ELSE Failed

\* the score is only capped at 100
ClampAbove(score) == Min2(score, 100)

\* Math.max(Math.min(score, 100), 1)
ClampScore(score) == Max2(Min2(score, 100), 1)

\* calculateTrendingScore(movie, rank), rank 0-based
calculateTrendingScore(movie, rank) ==
  LET base == 100 - (rank * 5)
      popularityBoost == IF movie.popularity > 100 THEN 10
                         ELSE IF movie.popularity > 50 THEN 5 ELSE 0
      ratingBoost == IF movie.vote_average >= 80 /\ movie.vote_count > 1000 THEN 10
                     ELSE IF movie.vote_average >= 70 /\ movie.vote_count > 500 THEN 5
                     ELSE 0
      daysSinceRelease == getDaysSinceRelease(movie.release_date)
      recencyBoost == IF Falsy(movie.release_date) THEN 0
                      ELSE IF LessEq(daysSinceRelease, 30) THEN 15
                      ELSE IF LessEq(daysSinceRelease, 90) THEN 10
                      ELSE IF LessEq(daysSinceRelease, 180) THEN 5
                      ELSE 0
  IN ClampScore(base + popularityBoost + ratingBoost + recencyBoost)

\* the score is computed from the 1-based rank
TrendingMetadataFromRank(movie, index) ==
  [trending_rank |-> index + 1,
   trending_score |-> calculateTrendingScore(movie, index + 1)] @@ movie

\* the callback of enrichedMovies.map((movie, index) => ...)
TrendingMetadata(movie, index) ==
  [trending_rank |-> index + 1,
   trending_score |-> calculateTrendingScore(movie, index)] @@ movie

\* Promise.allSettled on the page promises: fetchTrendingMoviesPage catches the
\* error of its call, so its promise is fulfilled, with null, also when the
\* call failed
SettledPage(outcome) ==
  [status |-> "fulfilled", value |-> fetchTrendingMoviesPage(outcome)]

\* pageResults.filter(r => r.status === 'fulfilled').length
pages_fetched(outcomes) ==
  Len(SelectSeq([i \in DOMAIN outcomes |-> SettledPage(outcomes[i])],
                LAMBDA r : r.status = "fulfilled"))

\* every settled promise is read as a page
UsablePagesUnchecked(settled) ==
  [i \in DOMAIN settled |-> fetchTrendingMoviesPage(settled[i])]

\* the pages whose promise is fulfilled with a non-empty result list
UsablePages(settled) ==
  SelectSeq(settled, LAMBDA f : fetchTrendingMoviesPage(f).ok
                                /\ Len(fetchTrendingMoviesPage(f).results) > 0)

\* GET /trending/movies: getTrendingMovies starts its five page fetches
RequestTrending(page) ==
  /\ pc = "idle"
  /\ op' = "trending-movies"
  /\ args' = [key |-> "none", type |-> "movie", page |-> page]
  /\ fetched' = [i \in 1..maxPages |-> Pending]
  /\ calls' = [i \in 1..maxPages |->
                 [endpoint |-> "/trending/movie/week", params |-> ("page" :> i)]]
  /\ work' = NoWork
  /\ response' = NoResponse
  /\ pc' = "pages"
  /\ UNCHANGED envVars

\* the five provider calls settle, each with a page or a failure
PagesSettle ==
  /\ pc = "pages"
  /\ \E outcomes \in [1..maxPages -> TrendingPages \cup {Failed}] :
        fetched' = outcomes
  /\ pc' = "merge"
  /\ UNCHANGED <<envVars, op, args, calls, work, response>>

\* Promise.allSettled has resolved: merge, de-duplicate, sort, enrich, annotate
AggregateTrending ==
  /\ pc = "merge"
  /\ \E failing \in DetailFailures :
       LET pages == UsablePages(fetched)
           \* reading .results of a null page throws into the catch clause
           thrown == \E i \in DOMAIN pages : ~pages[i].ok
           allTrendingMovies == Concat([i \in DOMAIN pages |-> pages[i].results])
           uniqueMovies == Sort("popularity", DedupeById(allTrendingMovies))
           enrichedMovies == enrichWithTaglines(uniqueMovies, failing)
           finalMovies ==
             [i \in DOMAIN enrichedMovies |-> TrendingMetadata(enrichedMovies[i], i - 1)]
       IN response' =
            IF thrown
            THEN createCategoryError(<<"Failed to fetch trending movies">>, NoResponse)
            ELSE [status |-> "ok", category |-> <<"trending-movies">>, page |-> 1,
                  results |-> finalMovies, total_results |-> Len(finalMovies),
                  total_pages |-> 1, data_page |-> 1,
                  pages_fetched |-> pages_fetched(fetched)]
  /\ pc' = "done"
  /\ UNCHANGED <<envVars, op, args, fetched, calls, work>>

----------------------------------------------------------------------------
(* Anticipated movies *)

\* formatReleaseDate: 'TBA', the raw string, or the long form of the local
\* calendar day of the parsed instant
formatReleaseDate(dateString) ==
  IF Falsy(dateString) THEN [kind |-> "TBA", day |-> 0]
  ELSE IF DateParse(dateString).kind = "nan" THEN [kind |-> "raw", day |-> 0]
  ELSE [kind |-> "long", day |-> (DateParse(dateString).v + tz) \div hoursPerDay]

\* upcoming movies the provider may list
UpcomingDates ==
  {NoDate, BadDate} \cup {Day(TodayUTC + d) : d \in {0 - 2, 0 - 1, 0, 1, 2}}

UpcomingPages ==
  {Page(<<Movie(1, 80, 70, 900, d1, WPNoUS), Movie(2, 60, 65, 100, d2, WPNoUS)>>, 40, 2) :
     d1, d2 \in UpcomingDates}

\* the filter keeps a movie dated yesterday or later, dated or not
KeepAnticipatedSinceYesterday(movie) ==
  Falsy(movie.release_date)
    \/ GreaterEq(DateParse(movie.release_date), Today - hoursPerDay)

\* the filter of getAnticipatedMovies
KeepAnticipated(movie) ==
  IF Falsy(movie.release_date) THEN FALSE
  ELSE GreaterEq(DateParse(movie.release_date), Today)

\* GET /upcoming/movies as served by getAnticipatedMovies
RequestAnticipated(page) ==
  /\ pc = "idle"
  /\ op' = "anticipated-movies"
  /\ args' = [key |-> "none", type |-> "movie", page |-> page]
  /\ fetched' = <<Pending>>
  /\ calls' = <<[endpoint |-> "/movie/upcoming", params |-> ("page" :> page)]>>
  /\ work' = NoWork
  /\ response' = NoResponse
  /\ pc' = "upcoming"
  /\ UNCHANGED envVars

\* getUpcoming settles; filter, enrich, annotate, sort
UpcomingSettles ==
  /\ pc = "upcoming"
  /\ \/ /\ fetched' = <<Failed>>
        /\ response' = createCategoryError(<<"Failed to fetch anticipated movies">>,
                                           ProviderError)
     \/ \E data \in UpcomingPages, failing \in DetailFailures :
          LET kept == SelectSeq(data.results, KeepAnticipated)
              enriched == enrichWithTaglines(kept, failing)
              annotated ==
                [i \in DOMAIN enriched |->
                   [release_date_formatted |-> formatReleaseDate(enriched[i].release_date),
                    is_upcoming |-> TRUE,
                    days_until_release |-> getDaysUntilRelease(enriched[i].release_date)]
                   @@ enriched[i]]
              sorted == Sort("release_date", annotated)
          IN /\ fetched' = <<data>>
             /\ response' =
                  [status |-> "ok", category |-> <<"anticipated-movies">>,
                   page |-> args.page, results |-> sorted,
                   total_results |-> Len(sorted), total_pages |-> data.total_pages]
  /\ pc' = "done"
  /\ UNCHANGED <<envVars, op, args, calls, work>>

----------------------------------------------------------------------------
(* Upcoming movies, upcoming TV shows and their combination *)

\* date.setMonth(date.getMonth() + n), on a calendar of 30-day months
MonthsFrom(t, n) == t + n * 30 * hoursPerDay

\* a settled promise: fulfilled with a value or rejected with a reason
EmptyData == [results |-> <<>>, total_results |-> 0, total_pages |-> 0]
Fulfilled(value) == [fulfilled |-> TRUE, value |-> value, reason |-> NoResponse]
Rejected(reason) == [fulfilled |-> FALSE, value |-> EmptyData, reason |-> reason]

\* what GET /movie/upcoming may answer
UpcomingMoviePages ==
  {Page(<<Movie(1, 80, 70, 900, Day(TodayUTC + 2), WPNoUS),
          Movie(2, 60, 65, 100, Day(TodayUTC - 2), WPNoUS)>>, 40, 2),
   Page(<<Movie(3, 80, 81, 2000, Day(TodayUTC), WPNoUS),
          Movie(550, 120, 84, 25000, NoDate, WPNoUS)>>, 2, 1),
   Page(<<>>, 0, 1)}

\* what GET /discover/tv may answer to the upcoming-TV query
UpcomingTVPages ==
  {Page(<<Show(21, 50, Day(TodayUTC + 1)), Show(22, 40, Day(TodayUTC + 3))>>, 30, 3),
   Page(<<Show(23, 10, Day(TodayUTC - 1))>>, 1, 1)}

\* getUpcomingMovies(page), given what the provider call settled with
getUpcomingMovies(outcome, page, failing) ==
  IF ~outcome.ok
  THEN Rejected(createCategoryError(<<"Failed to fetch upcoming movies">>, ProviderError))
  ELSE LET enriched == enrichWithTaglines(outcome.results, failing)
       IN Fulfilled(
            [category |-> <<"upcoming-movies">>, page |-> page,
             results |-> [i \in DOMAIN enriched |->
                            [release_date_formatted |->
                               formatReleaseDate(enriched[i].release_date),
                             is_upcoming |-> isUpcoming(enriched[i].release_date)]
                            @@ enriched[i]],
             total_results |-> outcome.total_results,
             total_pages |-> outcome.total_pages])

\* getUpcomingTV(page), given what the provider call settled with
getUpcomingTV(outcome, page, failing) ==
  IF ~outcome.ok
  THEN Rejected(createCategoryError(<<"Failed to fetch upcoming TV shows">>, ProviderError))
  ELSE LET enriched == enrichWithTaglines(outcome.results, failing)
       IN Fulfilled(
            [category |-> <<"upcoming-tv">>, page |-> page,
             results |-> [i \in DOMAIN enriched |->
                            [first_air_date_formatted |->
                               formatReleaseDate(enriched[i].first_air_date),
                             is_upcoming |-> isUpcoming(enriched[i].first_air_date)]
                            @@ enriched[i]],
             total_results |-> outcome.total_results,
             total_pages |-> outcome.total_pages])

\* the join rejects only when no promise is fulfilled
RejectsWhenNoneFulfilled(settled) == \A i \in DOMAIN settled : ~settled[i].fulfilled

\* Promise.all rejects when one of its promises rejects
PromiseAllRejects(settled) == \E i \in DOMAIN settled : ~settled[i].fulfilled

\* items.map(item => ({ ...item, media_type }))
WithMediaType(items, mediaType) ==
  [i \in DOMAIN items |-> [media_type |-> mediaType] @@ items[i]]

\* the totals of the movies sub-result stand for the whole
TotalsOfMovies(moviesData, tvData) ==
  [total_results |-> moviesData.total_results, total_pages |-> moviesData.total_pages]

\* total_results and total_pages of the combined envelope
CombinedTotals(moviesData, tvData) ==
  [total_results |-> moviesData.total_results + tvData.total_results,
   total_pages |-> Max2(moviesData.total_pages, tvData.total_pages)]

\* getCombinedUpcoming after both sub-fetches have settled; first is the
\* promise that settled first
getCombinedUpcoming(moviesResponse, tvResponse, first, moviePage, tvPage) ==
  LET settled == <<moviesResponse, tvResponse>>
      rejected == {i \in DOMAIN settled : ~settled[i].fulfilled}
      reason == IF first \in rejected THEN settled[first].reason
                ELSE settled[CHOOSE i \in rejected : TRUE].reason
      combinedResults ==
        Sort("combined",
             WithMediaType(moviesResponse.value.results, "movie")
               \o WithMediaType(tvResponse.value.results, "tv"))
  IN IF PromiseAllRejects(settled)
     THEN createCategoryError(<<"Failed to fetch combined upcoming content">>, reason)
     ELSE [status |-> "ok", category |-> <<"upcoming-combined">>,
           results |-> combinedResults,
           total_results |-> CombinedTotals(moviesResponse.value, tvResponse.value).total_results,
           total_pages |-> CombinedTotals(moviesResponse.value, tvResponse.value).total_pages,
           moviePage |-> moviePage, tvPage |-> tvPage]

\* GET /upcoming: getCombinedUpcoming starts both sub-fetches
RequestCombined(moviePage, tvPage) ==
  /\ pc = "idle"
  /\ op' = "upcoming-combined"
  /\ args' = [key |-> "none", type |-> "all", page |-> moviePage, tvPage |-> tvPage]
  /\ fetched' = <<Pending, Pending>>
  /\ calls' = <<[endpoint |-> "/movie/upcoming", params |-> ("page" :> moviePage)],
                [endpoint |-> "/discover/tv",
                 params |-> [page |-> tvPage,
                             first_air_date_gte |-> formatDateForAPI(wall),
                             first_air_date_lte |-> formatDateForAPI(MonthsFrom(wall, 6))]]>>
  /\ work' = NoWork
  /\ response' = NoResponse
  /\ pc' = "subfetches"
  /\ UNCHANGED envVars

\* the two provider calls settle, each with a page or a failure
SubFetchesSettle ==
  /\ pc = "subfetches"
  /\ \E m \in UpcomingMoviePages \cup {Failed}, t \in UpcomingTVPages \cup {Failed} :
        fetched' = <<m, t>>
  /\ pc' = "join"
  /\ UNCHANGED <<envVars, op, args, calls, work, response>>

\* both sub-fetches have enriched or failed; Promise.all settles
JoinCombined ==
  /\ pc = "join"
  /\ \E failing \in DetailFailures, first \in {1, 2} :
       response' = getCombinedUpcoming(getUpcomingMovies(fetched[1], args.page, failing),
                                       getUpcomingTV(fetched[2], args.tvPage, failing),
                                       first, args.page, args.tvPage)
  /\ pc' = "done"
  /\ UNCHANGED <<envVars, op, args, fetched, calls, work>>

----------------------------------------------------------------------------
(* Streaming now: the discovery queries *)

allOTTPlatforms ==
  <<"Netflix", "Prime Video", "Disney+", "Apple TV+", "HBO Max", "Hulu",
    "Paramount+", "Peacock", "Showtime", "Starz", "Crunchyroll", "Funimation",
    "YouTube Premium", "Tubi", "Pluto TV", "Roku Channel", "IMDb TV",
    "Vudu", "Crackle", "Plex", "Kanopy", "Hoopla">>

companyMap ==
  [platform \in Range(allOTTPlatforms) |->
     CASE platform = "Netflix" -> <<2, 4640>>
       [] platform = "Prime Video" -> <<1024, 11073>>
       [] platform = "Disney+" -> <<2, 3166, 6125>>
       [] platform = "Apple TV+" -> <<11481>>
       [] platform = "HBO Max" -> <<174, 3268>>
       [] platform = "Hulu" -> <<2739>>
       [] platform = "Paramount+" -> <<4, 491>>
       [] platform = "Peacock" -> <<1778>>
       [] platform = "Showtime" -> <<2605>>
       [] platform = "Starz" -> <<432>>
       [] platform = "Crunchyroll" -> <<4906>>
       [] platform = "Funimation" -> <<1957>>
       [] platform = "IMDb TV" -> <<1024>>
       [] platform = "Vudu" -> <<7505>>
       [] OTHER -> <<11073>>]

\* companyMap[platform] || []
getStreamingCompanyIds(platform) ==
  IF platform \in DOMAIN companyMap THEN companyMap[platform] ELSE <<>>

\* Array.prototype.join('|')
RECURSIVE JoinPipe(_)
JoinPipe(ids) ==
  IF ids = <<>> THEN <<>>
  ELSE IF Len(ids) = 1 THEN ToChars(ids[1])
  ELSE ToChars(ids[1]) \o <<"|">> \o JoinPipe(Tail(ids))

\* date.setDate(date.getDate() - n)
DaysBefore(t, n) == t - n * hoursPerDay

\* the four tiers of getStreamingNow, most recent first
StreamingWindows ==
  LET today == wall
      threeDaysAgo == DaysBefore(wall, 3)
      oneWeekAgo == DaysBefore(wall, 7)
      twoWeeksAgo == DaysBefore(wall, 14)
      oneMonthAgo == MonthsFrom(wall, 0 - 1)
  IN <<[startDate |-> threeDaysAgo, endDate |-> today],
       [startDate |-> oneWeekAgo, endDate |-> threeDaysAgo],
       [startDate |-> twoWeeksAgo, endDate |-> oneWeekAgo],
       [startDate |-> oneMonthAgo, endDate |-> twoWeeksAgo]>>

\* the discovery call of getOTTOriginalsBatch(platform, startDate, endDate, page)
OTTOriginalsQuery(platform, startDate, endDate, page) ==
  [endpoint |-> "/discover/movie",
   params |->
     (IF getStreamingCompanyIds(platform) # <<>>
      THEN [with_companies |-> JoinPipe(getStreamingCompanyIds(platform))]
      ELSE <<>>)
     @@ [sort_by |-> "release_date.desc",
         release_date_gte |-> formatDateForAPI(startDate),
         release_date_lte |-> formatDateForAPI(endDate),
         vote_count_gte |-> 50,
         with_watch_monetization_types |-> "flatrate",
         page |-> page]]

\* getOTTOriginalsBatch: the results of the call, [] when it failed
getOTTOriginalsBatch(outcome) == IF outcome.ok THEN outcome.results ELSE <<>>

\* searchPromises: every platform for the first window, then for the next
searchPromises ==
  [i \in 1..(Len(StreamingWindows) * Len(allOTTPlatforms)) |->
     LET w == StreamingWindows[((i - 1) \div Len(allOTTPlatforms)) + 1]
         platform == allOTTPlatforms[((i - 1) % Len(allOTTPlatforms)) + 1]
     IN OTTOriginalsQuery(platform, w.startDate, w.endDate, 1)]

----------------------------------------------------------------------------
(* Streaming now: verification and ranking of a candidate *)

\* !!(usProviders.flatrate || usProviders.ads)
hasStreamingAvailability(watchProviders) ==
  watchProviders.us /\ (watchProviders.flatrate # <<>> \/ watchProviders.ads)

\* list items of the provider carry no production_companies
isOTTOriginal(movie, watchProviders) ==
  \/ movie.vote_count < 500
  \/ /\ watchProviders.us
     /\ (watchProviders.flatrate # <<>> \/ watchProviders.ads)
     /\ ~watchProviders.rental
  \/ /\ LessEq(getDaysSinceRelease(movie.release_date), 90)
     /\ hasStreamingAvailability(watchProviders)

formatWatchProviders(watchProviders) ==
  IF ~watchProviders.us
  THEN [present |-> FALSE, streaming |-> <<>>, free |-> FALSE, rental |-> FALSE]
  ELSE [present |-> TRUE, streaming |-> watchProviders.flatrate,
        free |-> watchProviders.ads, rental |-> watchProviders.rental]

platformMap ==
  (8 :> "Netflix") @@ (9 :> "Amazon Prime Video") @@ (337 :> "Disney+")
    @@ (350 :> "Apple TV+") @@ (384 :> "HBO Max") @@ (15 :> "Hulu")
    @@ (531 :> "Paramount+") @@ (386 :> "Peacock") @@ (37 :> "Showtime")
    @@ (43 :> "Starz") @@ (283 :> "Crunchyroll") @@ (269 :> "Funimation")
    @@ (188 :> "YouTube Premium") @@ (583 :> "Tubi") @@ (300 :> "Pluto TV")
    @@ (207 :> "Roku Channel") @@ (613 :> "IMDb TV") @@ (7 :> "Vudu")
    @@ (12 :> "Crackle") @@ (538 :> "Plex") @@ (191 :> "Kanopy")
    @@ (212 :> "Hoopla")

\* the first recognized flatrate provider, else the name the provider gives
\* to the first one
identifyPrimaryStreamingPlatform(watchProviders) ==
  LET flatrate == watchProviders.flatrate
      recognized == {i \in DOMAIN flatrate : flatrate[i] \in DOMAIN platformMap}
  IN IF ~watchProviders.us \/ flatrate = <<>> THEN "Unknown"
     ELSE IF recognized # {}
          THEN platformMap[flatrate[CHOOSE i \in recognized :
                                      \A j \in recognized : i <= j]]
     ELSE "provider_name"

\* the score is returned as summed
Uncapped(score) == score

\* Math.min(score, 10)
CapScore(score) == Min2(score, 10)

calculateStreamingReleaseRecency(movie, watchProviders, daysSinceRelease) ==
  LET recency == IF LessEq(daysSinceRelease, 3) THEN 4
                 ELSE IF LessEq(daysSinceRelease, 7) THEN 3
                 ELSE IF LessEq(daysSinceRelease, 14) THEN 2
                 ELSE IF LessEq(daysSinceRelease, 30) THEN 1
                 ELSE 0
      popularity == IF movie.popularity > 100 THEN 2
                    ELSE IF movie.popularity > 50 THEN 1 ELSE 0
      votes == IF movie.vote_count > 500 /\ movie.vote_average >= 70 THEN 1 ELSE 0
      providers == IF watchProviders.us /\ Len(watchProviders.flatrate) > 0
                   THEN (IF Len(watchProviders.flatrate) > 1 THEN 2 ELSE 1)
                   ELSE 0
  IN CapScore(5 + recency + popularity + votes + providers)

\* 'Unknown', or the display form of a day drawn between today - latest and
\* today - earliest (Math.random chooses the day)
estimateStreamingAddDate(releaseDate, streamingScore) ==
  IF Falsy(releaseDate) THEN [kind |-> "Unknown", earliest |-> 0, latest |-> 0]
  ELSE IF streamingScore >= 9 THEN [kind |-> "estimate", earliest |-> 0, latest |-> 2]
  ELSE IF streamingScore >= 8 THEN [kind |-> "estimate", earliest |-> 1, latest |-> 7]
  ELSE IF streamingScore >= 7 THEN [kind |-> "estimate", earliest |-> 1, latest |-> 14]
  ELSE [kind |-> "estimate", earliest |-> 1, latest |-> 30]

\* the entry pushed to ottOriginalMovies
OTTOriginalEntry(movie, watchProviders) ==
  LET daysSinceRelease == getDaysSinceRelease(movie.release_date)
      streamingReleaseScore ==
        calculateStreamingReleaseRecency(movie, watchProviders, daysSinceRelease)
  IN [watch_providers |-> formatWatchProviders(watchProviders),
      is_ott_original |-> TRUE,
      days_since_release |-> daysSinceRelease,
      streaming_release_score |-> streamingReleaseScore,
      release_date_formatted |-> formatReleaseDate(movie.release_date),
      streaming_platform |-> identifyPrimaryStreamingPlatform(watchProviders),
      is_recent_release |-> LessEq(daysSinceRelease, 7),
      is_ultra_recent |-> LessEq(daysSinceRelease, 3),
      is_brand_new |-> LessEq(daysSinceRelease, 1),
      likely_new_to_streaming |-> streamingReleaseScore >= 8,
      estimated_streaming_add_date |->
        estimateStreamingAddDate(movie.release_date, streamingReleaseScore)]
     @@ movie

\* streamingReleaseScore >= 6 || daysSinceRelease <= 14
RecentlyAdded(movie, watchProviders) ==
  \/ calculateStreamingReleaseRecency(
       movie, watchProviders, getDaysSinceRelease(movie.release_date)) >= 6
  \/ LessEq(getDaysSinceRelease(movie.release_date), 14)


----------------------------------------------------------------------------
(* Streaming now: the operation *)

\* answers of the provider to a discovery query: a film released today and
\* listed twice (id 550), recent films with equal scores, a film whose
\* watch-provider lookup fails, films that fail the verification, and two
\* pages that together hold more candidates than the result may carry
StreamingPages ==
  {Page(<<Movie(550, 120, 84, 25000, Day(TodayUTC), WP(<<8>>, FALSE, FALSE)),
          Movie(11, 120, 70, 900, Day(TodayUTC - 2), WP(<<8, 337>>, FALSE, FALSE)),
          Movie(15, 80, 70, 900, Day(TodayUTC - 1), WPFail),
          Movie(13, 120, 75, 900, Day(TodayUTC - 10), WP(<<8, 9>>, FALSE, FALSE))>>, 4, 1),
   Page(<<Movie(12, 60, 65, 100, Day(TodayUTC - 10), WP(<<9>>, FALSE, TRUE)),
          Movie(550, 60, 84, 25000, Day(TodayUTC), WP(<<8>>, FALSE, FALSE)),
          Movie(14, 10, 60, 60, NoDate, WPNoUS)>>, 3, 1),
   Page(<<Movie(16, 30, 60, 2000, Day(TodayUTC - 40), WP(<<>>, FALSE, TRUE)),
          Movie(17, 10, 60, 100, Day(TodayUTC - 40), WPNoUS)>>, 2, 1),
   Page([i \in 1..20 |->
           Movie(100 + i, 10, 60, 100, Day(TodayUTC - 1), WP(<<8>>, FALSE, FALSE))], 40, 2),
   Page(<<Movie(121, 10, 60, 100, Day(TodayUTC - 5), WP(<<15>>, FALSE, FALSE)),
          Movie(15, 80, 70, 900, Day(TodayUTC - 1), WPFail),
          Movie(122, 10, 60, 100, Day(TodayUTC - 6), WP(<<15>>, FALSE, FALSE))>>, 3, 1)}

\* the queries whose answer varies: Netflix for the last 3 days and Netflix
\* for 3 to 7 days ago; every other query gets one common answer
SampledQueries == <<1, Len(allOTTPlatforms) + 1>>

\* GET /movie/{id}/watch/providers
WatchProvidersCall(movie) ==
  [endpoint |-> "/movie/watch/providers", params |-> [id |-> movie.id]]

\* the loop never breaks
NoLimit(ottOriginalMovies) == FALSE

\* if (ottOriginalMovies.length >= 20) break
ReachedLimit(ottOriginalMovies) == Len(ottOriginalMovies) >= 20

\* the lookup of a candidate failed: the loop ends
StopOnFailure(queue) == <<>>

\* the lookup of a candidate failed: continue with the next one
ContinueLoop(queue) == Tail(queue)

\* GET /streaming/now: getStreamingNow starts its discovery queries
RequestStreaming(page) ==
  /\ pc = "idle"
  /\ op' = "streaming-now"
  /\ args' = [key |-> "none", type |-> "movie", page |-> page]
  /\ fetched' = [i \in DOMAIN searchPromises |-> Pending]
  /\ calls' = searchPromises
  /\ work' = NoWork
  /\ response' = NoResponse
  /\ pc' = "discovery"
  /\ UNCHANGED envVars

\* Promise.allSettled has resolved: merge, de-duplicate, start the first lookup
DiscoverySettles ==
  /\ pc = "discovery"
  /\ \E first \in StreamingPages \cup {Failed}, second \in StreamingPages \cup {Failed},
        other \in {Page(<<>>, 0, 1), Failed} :
       LET batchResults ==
             [i \in DOMAIN fetched |->
                IF i = SampledQueries[1] THEN first
                ELSE IF i = SampledQueries[2] THEN second ELSE other]
           allMovies ==
             Concat([i \in DOMAIN batchResults |-> getOTTOriginalsBatch(batchResults[i])])
           uniqueMovies == DedupeById(allMovies)
       IN /\ fetched' = batchResults
          /\ work' = [queue |-> uniqueMovies, out |-> <<>>, skipped |-> <<>>]
          /\ IF uniqueMovies = <<>>
             THEN pc' = "enrich" /\ calls' = calls
             ELSE /\ pc' = "verify"
                  /\ calls' = Append(calls, WatchProvidersCall(Head(uniqueMovies)))
  /\ UNCHANGED <<envVars, op, args, response>>

\* the watch-provider lookup of the current candidate settles; the loop body
\* runs, then the next lookup starts or the loop ends and the list is sorted
VerifyCandidate ==
  /\ pc = "verify"
  /\ LET movie == Head(work.queue)
         watchProviders == movie.wp
         ottOriginalMovies ==
           IF watchProviders.ok /\ isOTTOriginal(movie, watchProviders)
              /\ RecentlyAdded(movie, watchProviders)
           THEN Append(work.out, OTTOriginalEntry(movie, watchProviders))
           ELSE work.out
         skipped == IF watchProviders.ok THEN work.skipped
                    ELSE Append(work.skipped, movie.id)
         rest == IF ~watchProviders.ok THEN ContinueLoop(work.queue)
                 ELSE IF ReachedLimit(ottOriginalMovies) THEN <<>>
                 ELSE Tail(work.queue)
     IN IF rest = <<>>
        THEN /\ work' = [queue |-> <<>>, out |-> Sort("streaming", ottOriginalMovies),
                         skipped |-> skipped]
             /\ calls' = calls
             /\ pc' = "enrich"
        ELSE /\ work' = [queue |-> rest, out |-> ottOriginalMovies, skipped |-> skipped]
             /\ calls' = Append(calls, WatchProvidersCall(Head(rest)))
             /\ pc' = "verify"
  /\ UNCHANGED <<envVars, op, args, fetched, response>>

\* enrichWithTaglines has resolved: the envelope
EnrichStreaming ==
  /\ pc = "enrich"
  /\ \E failing \in DetailFailures :
       LET enrichedResults == enrichWithTaglines(work.out, failing)
       IN response' =
            [status |-> "ok", category |-> <<"streaming-now">>, page |-> args.page,
             results |-> enrichedResults,
             total_results |-> Len(enrichedResults),
             recent_releases_count |->
               Len(SelectSeq(enrichedResults, LAMBDA m : m.is_recent_release)),
             data_page |-> 1]
  /\ pc' = "done"
  /\ UNCHANGED <<envVars, op, args, fetched, calls, work>>

----------------------------------------------------------------------------
(* TMDBService.enrichWithTaglines, batch by batch *)

maxConcurrent == 5

\* a list item as search and list endpoints return it
ListItem(id, media_type, title) ==
  IF media_type = "none"
  THEN (IF title THEN [id |-> id, title |-> "title"] ELSE [id |-> id, name |-> "name"])
  ELSE (IF title THEN [id |-> id, media_type |-> media_type, title |-> "title"]
        ELSE [id |-> id, media_type |-> media_type, name |-> "name"])

\* the lists handed to enrichWithTaglines
EnrichInputs ==
  {<<>>,
   <<ListItem(1, "none", TRUE)>>,
   [i \in 1..7 |-> ListItem(i, "none", i % 2 = 1)],
   <<ListItem(1, "movie", TRUE), ListItem(0, "none", TRUE), ListItem(9, "person", FALSE),
     ListItem(2, "tv", FALSE), ListItem(3, "none", FALSE), ListItem(4, "movie", TRUE)>>,
   [i \in 1..6 |-> IF i < 6 THEN ListItem(0, "none", TRUE) ELSE ListItem(8, "none", TRUE)]}

\* the callback goes on to a detail fetch: the item has an id and is a
\* movie or a TV show
NeedsDetail(item) ==
  /\ item.id # 0
  /\ ("media_type" \in DOMAIN item => item.media_type \in {"movie", "tv"})

\* item.media_type || (item.title ? 'movie' : 'tv')
DetailMediaType(item) ==
  IF "media_type" \in DOMAIN item THEN item.media_type
  ELSE IF "title" \in DOMAIN item THEN "movie" ELSE "tv"

\* getMovie(item.id) or getTVShow(item.id)
DetailCall(item) ==
  [endpoint |-> IF DetailMediaType(item) = "movie" THEN "/movie/{id}" ELSE "/tv/{id}",
   params |-> [id |-> item.id]]

\* the promise of one callback of a batch
Slot(item) ==
  [item |-> item, state |-> IF NeedsDetail(item) THEN "pending" ELSE "returned"]

\* the failed fetch drops the item
SlotValueDropsFailed(slot) ==
  IF slot.state = "ok" THEN <<[tagline |-> "tagline"] @@ slot.item>>
  ELSE IF slot.state = "failed" THEN <<>>
  ELSE <<slot.item>>

\* what the callback resolves with, as a list of one item
SlotValue(slot) ==
  IF slot.state = "ok" THEN <<[tagline |-> "tagline"] @@ slot.item>>
  ELSE IF slot.state = "failed" THEN <<[tagline |-> ""] @@ slot.item>>
  ELSE <<slot.item>>

BatchValues(slots) == Concat([i \in DOMAIN slots |-> SlotValue(slots[i])])

AnyPending(slots) == \E i \in DOMAIN slots : slots[i].state = "pending"

\* a batch that takes all that is left
WholeQueue(queue) == Len(queue)

\* results.slice(i, i + maxConcurrent): the length of the next batch
BatchSize(queue) == Min2(maxConcurrent, Len(queue))

\* the for loop from the start of an iteration up to its next await that
\* has to wait: batches without a detail fetch resolve at once
RECURSIVE RunBatches(_, _, _)
RunBatches(queue, enrichedResults, issued) ==
  IF queue = <<>>
  THEN [queue |-> <<>>, out |-> enrichedResults, slots |-> <<>>, issued |-> issued,
        finished |-> TRUE]
  ELSE LET batch == SubSeq(queue, 1, BatchSize(queue))
           rest == SubSeq(queue, Len(batch) + 1, Len(queue))
           slots == [i \in DOMAIN batch |-> Slot(batch[i])]
           fetches == SelectSeq(batch, NeedsDetail)
       IN IF AnyPending(slots)
          THEN [queue |-> rest, out |-> enrichedResults, slots |-> slots,
                issued |-> issued \o [i \in DOMAIN fetches |-> DetailCall(fetches[i])],
                finished |-> FALSE]
          ELSE RunBatches(rest, enrichedResults \o BatchValues(slots), issued)

\* the state after RunBatches has run
EnrichmentAt(r, failedIds) ==
  /\ work' = [queue |-> r.queue, out |-> r.out, skipped |-> failedIds]
  /\ fetched' = r.slots
  /\ calls' = r.issued
  /\ IF r.finished
     THEN pc' = "done" /\ response' = [status |-> "ok", results |-> r.out]
     ELSE pc' = "batch" /\ response' = NoResponse

\* enrichWithTaglines(results) is called
CallEnrich(results) ==
  /\ pc = "idle"
  /\ op' = "enrichWithTaglines"
  /\ args' = [key |-> "none", type |-> "all", page |-> 1, results |-> results]
  /\ EnrichmentAt(RunBatches(results, <<>>, <<>>), <<>>)
  /\ UNCHANGED envVars

\* one detail fetch of the batch in flight settles; when it is the last one
\* Promise.all resolves and the loop goes on
DetailSettles ==
  /\ pc = "batch"
  /\ \E i \in DOMAIN fetched, outcome \in {"ok", "failed"} :
       /\ fetched[i].state = "pending"
       /\ LET slots == [fetched EXCEPT ![i].state = outcome]
              failedIds == IF outcome = "failed"
                           THEN Append(work.skipped, fetched[i].item.id)
                           ELSE work.skipped
          IN IF AnyPending(slots)
             THEN /\ fetched' = slots
                  /\ work' = [work EXCEPT !.skipped = failedIds]
                  /\ UNCHANGED <<calls, pc, response>>
             ELSE EnrichmentAt(RunBatches(work.queue, work.out \o BatchValues(slots),
                                          calls), failedIds)
  /\ UNCHANGED <<envVars, op, args>>

----------------------------------------------------------------------------
(* The two scores on their own *)

\* movies over the thresholds of the two scores
ScoreDates ==
  {NoDate, BadDate} \cup
    {Day(TodayUTC - d) : d \in {0 - 1, 0, 3, 14, 30, 90, 181}}

ScoreMovies ==
  {Movie(1, popularity, vote_average, vote_count, release_date, wp) :
     popularity \in {0, 51, 101},
     vote_average \in {0, 70, 80},
     vote_count \in {0, 501, 1001},
     release_date \in ScoreDates,
     wp \in {WPNoUS, WP(<<>>, TRUE, FALSE), WP(<<8>>, FALSE, FALSE),
             WP(<<8, 337>>, FALSE, TRUE)}}

\* positions of a merged trending list (five pages of 20)
ScoreIndexes == {0, 1, 19, 20, MaxIndex}

\* the map callback of getTrendingMovies on one movie at one position
AnnotateTrending(movie, index) ==
  /\ pc = "idle"
  /\ op' = "calculateTrendingScore"
  /\ args' = [key |-> "none", type |-> "movie", page |-> 1, index |-> index]
  /\ fetched' = <<Page(<<movie>>, 1, 1)>>
  /\ response' = [status |-> "ok", results |-> <<TrendingMetadata(movie, index)>>]
  /\ pc' = "done"
  /\ UNCHANGED <<envVars, calls, work>>

\* the loop body of getStreamingNow on one verified candidate
AnnotateStreaming(movie) ==
  /\ pc = "idle"
  /\ op' = "calculateStreamingReleaseRecency"
  /\ args' = [key |-> "none", type |-> "movie", page |-> 1, index |-> 0]
  /\ fetched' = <<Page(<<movie>>, 1, 1)>>
  /\ response' = [status |-> "ok", results |-> <<OTTOriginalEntry(movie, movie.wp)>>]
  /\ pc' = "done"
  /\ UNCHANGED <<envVars, calls, work>>

----------------------------------------------------------------------------
(* middleware/errorHandler: the HTTP status of a finished request *)

\* err.message.includes(word), a message being the list of its parts
MessageIncludes(err, word) == word \in Range(err.message)

\* errorHandler(err, req, res, next): the status passed to res.status()
errorHandler(err) ==
  IF err.code \in {"TMDB_API_ERROR", "SEARCH_NETWORK_ERROR", "NETWORK_ERROR"} THEN 502
  ELSE IF err.code \in {"CATEGORY_SERVICE_ERROR", "CONTENT_SERVICE_ERROR",
                        "SEARCH_API_ERROR", "SEARCH_ERROR"} THEN 500
  ELSE IF err.code \in {"INVALID_REQUEST", "VALIDATION_ERROR"} THEN 400
  ELSE IF err.code = "NOT_FOUND" THEN 404
  ELSE IF err.code = "RATE_LIMIT_EXCEEDED" THEN 429
  ELSE IF err.code = "SERVICE_UNAVAILABLE" THEN 503
  ELSE IF MessageIncludes(err, "required") \/ MessageIncludes(err, "must be") THEN 400
  ELSE IF MessageIncludes(err, "Unsupported") THEN 400
  ELSE 500

\* the status line of the response: res.json(result) answers 200, the
\* validator chain answers 400 itself, next(error) ends in errorHandler
HttpStatus(res) ==
  IF res.status = "ok" THEN 200
  ELSE IF res = ValidationError THEN 400
  ELSE errorHandler(res)

----------------------------------------------------------------------------
(* Concurrent provider calls of one request on one TMDBService *)

\* the first discovery queries of getStreamingNow: allOTTPlatforms.map(...)
\* hands each of them to makeRequest without waiting for the one before
ConcurrentCalls == SubSeq(searchPromises, 1, MaxCallers)

\* each query of the map enters makeRequest once and never returns to it
CallersNeverEnd(queue) == queue

\* each query of the map enters makeRequest once
RemainingCallers(queue) == Tail(queue)

\* the request builds its queries
StartCalls ==
  /\ pc = "idle"
  /\ pc' = "makeRequest"
  /\ op' = "streaming-now"
  /\ args' = [key |-> "none", type |-> "movie", page |-> 1]
  /\ calls' = ConcurrentCalls
  /\ fetched' = [i \in DOMAIN ConcurrentCalls |-> Pending]
  /\ work' = [queue |-> ConcurrentCalls, out |-> <<>>, skipped |-> <<>>]
  /\ response' = NoResponse
  /\ UNCHANGED envVars

\* the next query enters makeRequest and runs enforceRateLimit
CallEnters ==
  /\ pc = "makeRequest"
  /\ work.queue # <<>>
  /\ enforceRateLimit("categories", sleeping["categories"])
  /\ work' = [work EXCEPT !.queue = RemainingCallers(@)]
  /\ UNCHANGED <<now, wall, tz, CATEGORY_MAPPINGS, pc, op, args, fetched, calls, response>>

----------------------------------------------------------------------------
(* SearchService: multi, movie and TV search with filter and sort options *)

SearchTypes == {"multi", "movie", "tv"}

\* .isIn([...]) of validateSearchQuery
AcceptedSortOptions ==
  {"popularity.desc", "popularity.asc", "vote_average.desc", "vote_average.asc",
   "release_date.desc", "release_date.asc"}

\* the keys of sortFunctions
SortFunctionNames == {"popularity", "rating", "date", "title"}

\* what a client may send as sortBy: nothing, an accepted option, the name of
\* a sort function
SortByValues == {"none"} \cup AcceptedSortOptions \cup SortFunctionNames

\* items of a provider search page; the multi search names their media type
SearchMovie(id, popularity, vote_average, vote_count, release_date, title, adult) ==
  [id |-> id, popularity |-> popularity, vote_average |-> vote_average,
   vote_count |-> vote_count, release_date |-> release_date, title |-> title,
   adult |-> adult]

SearchShow(id, popularity, vote_average, vote_count, first_air_date, name) ==
  [id |-> id, popularity |-> popularity, vote_average |-> vote_average,
   vote_count |-> vote_count, first_air_date |-> first_air_date, name |-> name]

SearchPerson(id, popularity, name) ==
  [id |-> id, media_type |-> "person", popularity |-> popularity, name |-> name]

OfMediaType(item, media_type) == [media_type |-> media_type] @@ item

\* the provider answers a search in its own order of relevance
MovieHits ==
  <<SearchMovie(550, 90, 84, 25000, Day(TodayUTC - 9000), <<6, 9>>, FALSE),
    SearchMovie(1, 40, 81, 2000, Day(TodayUTC - 100), <<1, 12>>, FALSE),
    SearchMovie(2, 70, 60, 300, NoDate, <<6, 1>>, TRUE),
    SearchMovie(3, 60, 70, 900, Day(TodayUTC - 3000), <<2>>, FALSE)>>

ShowHits ==
  <<SearchShow(21, 30, 75, 800, Day(TodayUTC - 50), <<6, 9>>),
    SearchShow(22, 80, 66, 5000, Day(TodayUTC - 700), <<1>>)>>

SearchPages(searchType) ==
  IF searchType = "movie"
  THEN {Page(MovieHits, 4, 1), Page(SubSeq(MovieHits, 2, 2), 21, 2), Page(<<>>, 0, 1)}
  ELSE IF searchType = "tv"
  THEN {Page(ShowHits, 2, 1), Page(<<>>, 0, 1)}
  ELSE {Page(<<OfMediaType(MovieHits[2], "movie"), SearchPerson(31, 95, <<3>>),
               OfMediaType(ShowHits[2], "tv"), OfMediaType(MovieHits[4], "movie")>>, 4, 1),
        Page(<<>>, 0, 1)}

SearchEndpoint(searchType) ==
  IF searchType = "movie" THEN "/search/movie"
  ELSE IF searchType = "tv" THEN "/search/tv"
  ELSE "/search/multi"

\* filterResults(results, {includeAdult, minVoteCount, minRating})
filterResults(results, includeAdult, minVoteCount, minRating) ==
  SelectSeq(results,
            LAMBDA item :
              /\ ~(~includeAdult /\ FieldOr(item, "adult", FALSE))
              /\ ~(minVoteCount > 0 /\ FieldOr(item, "vote_count", 0) < minVoteCount)
              /\ ~(minRating > 0 /\ FieldOr(item, "vote_average", 0) < minRating))

\* sortResults(results, sortBy): sortFunctions[sortBy] on a copy of the list;
\* without a sort function under that key the list is returned as it is
sortResults(results, sortBy) ==
  IF sortBy \in SortFunctionNames THEN Sort(sortBy, results) ELSE results

getMediaTypeFromSearchType(searchType) ==
  IF searchType \in {"movie", "tv"} THEN searchType ELSE "unknown"

\* formatResultItem(item, searchType): the fields the orderings are about
formatResultItem(item, searchType) ==
  LET media_type == FieldOr(item, "media_type", "none")
      baseItem ==
        [id |-> item.id,
         mediaType |-> IF media_type # "none" THEN media_type
                       ELSE getMediaTypeFromSearchType(searchType),
         title |-> TitleOrName(item),
         popularity |-> item.popularity,
         adult |-> FieldOr(item, "adult", FALSE)]
      votes ==
        [voteAverage |-> FieldOr(item, "vote_average", 0),
         voteCount |-> FieldOr(item, "vote_count", 0)]
  IN IF media_type = "movie" \/ searchType = "movie"
     THEN [releaseDate |-> FieldOr(item, "release_date", NoDate)] @@ votes @@ baseItem
     ELSE IF media_type = "tv" \/ searchType = "tv"
     THEN [firstAirDate |-> FieldOr(item, "first_air_date", NoDate)] @@ votes @@ baseItem
     ELSE IF media_type = "person" THEN baseItem
     ELSE votes @@ baseItem

\* formatSearchResults(response, searchType, options)
formatSearchResults(data, searchType, options) ==
  LET filtered == filterResults(data.results, options.includeAdult,
                                options.minVoteCount, options.minRating)
      sorted == IF options.sortBy # "none"
                THEN sortResults(filtered, options.sortBy) ELSE filtered
      results == [i \in DOMAIN sorted |-> formatResultItem(sorted[i], searchType)]
  IN [status |-> "ok", searchType |-> searchType, results |-> results,
      total_pages |-> data.total_pages, total_results |-> data.total_results,
      resultCount |-> Len(results),
      filteredCount |-> Len(data.results) - Len(results)]

\* handleSearchError(error, searchContext) for an error of the provider
handleSearchError(error) ==
  [status |-> "error", code |-> "SEARCH_API_ERROR",
   message |-> <<"Search failed">> \o error.message, originalError |-> error]

\* GET /search/multi, /search/movies, /search/tv up to the provider call
RequestSearch(searchType, sortBy, includeAdult, minVoteCount, minRating) ==
  /\ pc = "idle"
  /\ op' = "search"
  /\ args' = [key |-> "query", type |-> searchType, page |-> 1, sortBy |-> sortBy,
              includeAdult |-> includeAdult, minVoteCount |-> minVoteCount,
              minRating |-> minRating]
  /\ fetched' = <<>>
  /\ work' = NoWork
  /\ IF sortBy # "none" /\ sortBy \notin AcceptedSortOptions
     THEN /\ response' = ValidationError
          /\ calls' = <<>>
          /\ pc' = "done"
     ELSE /\ response' = NoResponse
          /\ calls' = <<[endpoint |-> SearchEndpoint(searchType),
                         params |-> [query |-> "query", page |-> 1]]>>
          /\ pc' = "search"
  /\ UNCHANGED envVars

\* the provider call settles; formatSearchResults runs
SearchSettles ==
  /\ pc = "search"
  /\ \/ /\ fetched' = <<Failed>>
        /\ response' = handleSearchError(ProviderError)
     \/ \E data \in SearchPages(args.type) :
          /\ fetched' = <<data>>
          /\ response' = formatSearchResults(data, args.type, args)
  /\ pc' = "done"
  /\ UNCHANGED <<envVars, op, args, calls, work>>

----------------------------------------------------------------------------
(* Specifications *)

PageNumbers == {1, 2}

\* <<time zone offset, UTC hour of day TodayUTC>> at which requests are
\* served: UTC, UTC-5 and UTC+5 at noon, UTC-5 while the local day is still
\* the day before, UTC+5 while it is already the day after
Environments == {<<0, 12>>, <<0 - 5, 12>>, <<0 - 5, 2>>, <<5, 12>>, <<5, 22>>}

InitRequest ==
  /\ pc = "idle"
  /\ op = "none"
  /\ args = <<>>
  /\ fetched = <<>>
  /\ calls = <<>>
  /\ work = NoWork
  /\ response = NoResponse
  /\ CATEGORY_MAPPINGS = CategoryMappingsLiteral

\* the category service serving one request at a time
Init ==
  /\ now = 0
  /\ \E e \in Environments : tz = e[1] /\ wall = TodayUTC * hoursPerDay + e[2]
  /\ requestTimes = [r \in Routers |-> <<>>]
  /\ sleeping = [r \in Routers |-> EmptyBag]
  /\ InitRequest

Next ==
  \/ \E t \in CategoryTypes \ {"genres"}, k \in KeyUniverse, p \in PageNumbers :
        RequestCategory(t, k, "movie", p)
  \/ \E k \in KeyUniverse, q \in {"movie", "tv"}, p \in PageNumbers :
        RequestCategory("genres", k, q, p)
  \/ DiscoverSettles
  \/ \E p \in PageNumbers : RequestTrending(p)
  \/ PagesSettle
  \/ AggregateTrending
  \/ \E p \in PageNumbers : RequestAnticipated(p)
  \/ UpcomingSettles
  \/ \E mp \in PageNumbers, tp \in PageNumbers : RequestCombined(mp, tp)
  \/ SubFetchesSettle
  \/ JoinCombined
  \/ \E p \in PageNumbers : RequestStreaming(p)
  \/ DiscoverySettles
  \/ VerifyCandidate
  \/ EnrichStreaming
  \/ Respond

Spec == Init /\ [][Next]_vars

\* one TMDBService instance under concurrent callers
InitRate ==
  /\ now = 0
  /\ wall = TodayUTC * hoursPerDay
  /\ tz = 0
  /\ requestTimes = [r \in Routers |-> <<>>]
  /\ sleeping = [r \in Routers |-> EmptyBag]
  /\ InitRequest

\* all router instances of the process, the clock moving a window at a time
NextProcess ==
  \/ Tick(windowSizeMs)
  \/ \E r \in Routers : MakeRequest(r)
  \/ \E r \in Routers : TimerFires(r)

SpecProcess == InitRate /\ [][NextProcess]_vars

\* one enrichment at a time on one TMDBService
NextEnrich ==
  \/ \E results \in EnrichInputs : CallEnrich(results)
  \/ DetailSettles
  \/ Respond

SpecEnrich == InitRate /\ [][NextEnrich]_vars

\* the scoring functions applied to one movie at a time
NextScore ==
  \/ \E movie \in ScoreMovies, index \in ScoreIndexes : AnnotateTrending(movie, index)
  \/ \E movie \in ScoreMovies : AnnotateStreaming(movie)
  \/ Respond

SpecScore == Init /\ [][NextScore]_vars

\* one TMDBService instance under concurrent makeRequest callers
NextInstance ==
  \/ Tick(TickMs)
  \/ MakeRequest("categories")
  \/ TimerFires("categories")

SpecInstance == InitRate /\ [][NextInstance]_vars

\* the calls of one request contending on one TMDBService: time passes, and
\* the event loop runs a timer that is due
NextContend ==
  \/ StartCalls
  \/ CallEnters
  \/ TimerFires("categories")
  \/ Elapse(TickMs)

SpecContend ==
  /\ InitRate
  /\ [][NextContend]_vars
  /\ WF_vars(Elapse(TickMs))
  /\ WF_vars(TimerFires("categories"))

\* the search routes serving one request at a time
NextSearch ==
  \/ \E searchType \in SearchTypes, sortBy \in SortByValues, includeAdult \in BOOLEAN,
        minVoteCount \in {0, 500}, minRating \in {0, 65} :
        RequestSearch(searchType, sortBy, includeAdult, minVoteCount, minRating)
  \/ SearchSettles
  \/ Respond

SpecSearch == Init /\ [][NextSearch]_vars

----------------------------------------------------------------------------
(* Claims *)

\* C1: counting the calls admitted by every TMDBService instance of the
\* process, no more than 40 calls are admitted within any trailing
\* 10-second window.
ProcessWideLimit == ProcessAdmittedInWindow <= maxRequestsPerWindow

\* C3: for every category type and every key that is not listed under it,
\* the mapping lookup reports the key as not found.
RejectionComplete ==
  (pc # "idle" /\ op \in CategoryTypes /\ ValidateParam(op, args.key)
     /\ args.key \notin AllowList(op))
    => (IsNull(getCategoryMapping(op, args.key)) /\ ~isValidCategory(op, args.key))

\* C4: a mood, awards, studio, network or genre request whose key is outside
\* the enumeration of its type fails closed: no provider call is issued for
\* it, it never returns content, and it ends in an error.
FailsClosed ==
  (pc # "idle" /\ op \in CategoryTypes /\ args.key \notin AllowList(op))
    => /\ calls = <<>>
       /\ response.status # "ok"
       /\ (pc = "done" => response.status = "error")

\* the ids of a list of items
Ids(items) == {items[i].id : i \in DOMAIN items}

AnticipatedAllUpcoming ==
  (op = "anticipated-movies" /\ pc = "done" /\ response.status = "ok")
    => \A i \in DOMAIN response.results :
         /\ response.results[i].release_date.kind = "day"
         /\ response.results[i].release_date.day >= LocalDay

\* an anticipated-movies result that kept a movie while the provider also
\* listed a past-dated one or one without a date
AnticipatedFiltered ==
  /\ op = "anticipated-movies" /\ pc = "done" /\ response.status = "ok"
  /\ Len(response.results) = 1
  /\ \E i \in DOMAIN fetched[1].results :
       \/ Falsy(fetched[1].results[i].release_date)
       \/ /\ fetched[1].results[i].release_date.kind = "day"
          /\ fetched[1].results[i].release_date.day < LocalDay

\* C7: an upcoming movie dated exactly today (the local day of the process)
\* is kept by anticipated-movies, with is_upcoming = true and
\* days_until_release = 0.
TodayIsKept ==
  (op = "anticipated-movies" /\ pc = "done" /\ fetched[1].ok)
    => \A i \in DOMAIN fetched[1].results :
         fetched[1].results[i].release_date = Day(LocalDay)
           => \E j \in DOMAIN response.results :
                /\ response.results[j].id = fetched[1].results[i].id
                /\ response.results[j].is_upcoming
                /\ response.results[j].days_until_release = Num(0)

\* C8: combined upcoming is all or nothing: it returns a result only when
\* both the upcoming-movies fetch and the upcoming-TV fetch succeeded, and
\* then with the items of both; when either failed it ends in a category
\* error that carries no result list.
CombinedAllOrNothing ==
  (op = "upcoming-combined" /\ pc = "done")
    => IF fetched[1].ok /\ fetched[2].ok
       THEN /\ response.status = "ok"
            /\ Len(response.results)
                 = Len(fetched[1].results) + Len(fetched[2].results)
       ELSE /\ response.status = "error"
            /\ response.code = "CATEGORY_SERVICE_ERROR"
            /\ "results" \notin DOMAIN response

\* a combined request that ended in an error although one of the two
\* sub-fetches had delivered items
CombinedOneSideFailed ==
  /\ op = "upcoming-combined" /\ pc = "done"
  /\ \E i, j \in {1, 2} : ~fetched[i].ok /\ fetched[j].ok /\ Len(fetched[j].results) > 0
  /\ response.status = "error"

\* the candidates of a streaming-now request: the distinct films of the
\* discovery queries that succeeded, in merge order
StreamingCandidates ==
  DedupeById(Concat([i \in DOMAIN fetched |->
                       IF fetched[i].ok THEN fetched[i].results ELSE <<>>]))

\* C2: in a streaming-now result, of two items with the same
\* streaming_release_score the one with fewer days since its release is
\* never ranked after the other.
StreamingTieBreak ==
  (op = "streaming-now" /\ pc = "done" /\ response.status = "ok")
    => \A i, j \in DOMAIN response.results :
         (/\ i < j
          /\ response.results[i].streaming_release_score
               = response.results[j].streaming_release_score
          /\ response.results[i].days_since_release.kind = "num"
          /\ response.results[j].days_since_release.kind = "num")
           => response.results[i].days_since_release.v
                <= response.results[j].days_since_release.v

\* C5: no result list of trending movies or of streaming now holds two
\* entries with the same id (every entry of both lists is a movie); when
\* two trending pages both list id 550, the result holds it exactly once.
NoDuplicateEntries ==
  (op \in {"trending-movies", "streaming-now"} /\ pc = "done"
     /\ response.status = "ok")
    => /\ \A i, j \in DOMAIN response.results :
            response.results[i].id = response.results[j].id => i = j
       /\ (op = "trending-movies"
             /\ Cardinality({p \in DOMAIN fetched :
                               fetched[p].ok /\ 550 \in Ids(fetched[p].results)}) >= 2)
            => Cardinality({i \in DOMAIN response.results :
                              response.results[i].id = 550}) = 1

\* a trending result built from two pages that both list id 550
TrendingMergedDuplicate ==
  /\ op = "trending-movies" /\ pc = "done" /\ response.status = "ok"
  /\ Cardinality({p \in DOMAIN fetched :
                    fetched[p].ok /\ 550 \in Ids(fetched[p].results)}) >= 2
  /\ 550 \in Ids(response.results)

EnrichmentNeverRaises ==
  (op = "enrichWithTaglines" /\ pc = "done")
    => /\ response.status = "ok"
       /\ Len(response.results) = Len(args.results)
       /\ \A i \in DOMAIN args.results :
            /\ response.results[i].id = args.results[i].id
            /\ args.results[i].id \in Range(work.skipped)
                 => ("tagline" \in DOMAIN response.results[i]
                       /\ response.results[i].tagline = "")
       /\ response.results = enrichWithTaglines(args.results, Range(work.skipped))

\* an enrichment of two batches that finished although a detail fetch of
\* the first batch had failed
EnrichmentWithFailure ==
  /\ op = "enrichWithTaglines" /\ pc = "done" /\ response.status = "ok"
  /\ Len(args.results) > maxConcurrent
  /\ args.results[2].id \in Range(work.skipped)
  /\ response.results[Len(args.results)].tagline = "tagline"

\* C12: the trending_score of every item is a number from 1 to 100,
\* whatever its position, popularity, votes and release date (missing and
\* unparseable dates included).
TrendingScoreBounded ==
  (op \in {"calculateTrendingScore", "trending-movies"} /\ pc = "done"
     /\ response.status = "ok")
    => \A i \in DOMAIN response.results :
         /\ response.results[i].trending_score \in Int
         /\ response.results[i].trending_score >= 1
         /\ response.results[i].trending_score <= 100

\* a movie without boosts so far down the list that the score is clamped
TrendingScoreClampedBelow ==
  /\ op = "calculateTrendingScore" /\ pc = "done"
  /\ args.index > 20
  /\ Falsy(fetched[1].results[1].release_date)
  /\ response.results[1].trending_score = 1

\* C13: the streaming_release_score of every item is a number from 1 to 10,
\* whatever its days since release (missing included), popularity, votes
\* and provider availability.
StreamingScoreBounded ==
  (op \in {"calculateStreamingReleaseRecency", "streaming-now"} /\ pc = "done"
     /\ response.status = "ok")
    => \A i \in DOMAIN response.results :
         /\ response.results[i].streaming_release_score \in Int
         /\ response.results[i].streaming_release_score >= 1
         /\ response.results[i].streaming_release_score <= 10

\* a movie without release date whose summed bonuses exceed the cap
StreamingScoreCapped ==
  /\ op = "calculateStreamingReleaseRecency" /\ pc = "done"
  /\ response.results[1].days_since_release = Null
  /\ response.results[1].popularity > 100
  /\ Len(response.results[1].watch_providers.streaming) > 1
  /\ response.results[1].streaming_release_score = 10

\* the popularity, rating and recency bonuses of an item
ScoreBonuses(item) ==
  (IF item.popularity > 100 THEN 10 ELSE IF item.popularity > 50 THEN 5 ELSE 0)
  + (IF item.vote_average >= 80 /\ item.vote_count > 1000 THEN 10
     ELSE IF item.vote_average >= 70 /\ item.vote_count > 500 THEN 5 ELSE 0)
  + (IF Falsy(item.release_date) THEN 0
     ELSE IF LessEq(getDaysSinceRelease(item.release_date), 30) THEN 15
     ELSE IF LessEq(getDaysSinceRelease(item.release_date), 90) THEN 10
     ELSE IF LessEq(getDaysSinceRelease(item.release_date), 180) THEN 5
     ELSE 0)

\* C14 as claimed: the trending_score of an item is 100 - 5 * trending_rank
\* plus its bonuses, clamped to 1..100.
TrendingScoreFromRank ==
  (op \in {"calculateTrendingScore", "trending-movies"} /\ pc = "done"
     /\ response.status = "ok")
    => \A i \in DOMAIN response.results :
         response.results[i].trending_score
           = Max2(1, Min2(100, 100 - 5 * response.results[i].trending_rank
                                 + ScoreBonuses(response.results[i])))

\* C14 as amended: the trending_score of an item is
\* 100 - 5 * (trending_rank - 1) plus its bonuses, clamped to 1..100.
TrendingScoreFromPosition ==
  (op \in {"calculateTrendingScore", "trending-movies"} /\ pc = "done"
     /\ response.status = "ok")
    => \A i \in DOMAIN response.results :
         response.results[i].trending_score
           = Max2(1, Min2(100, 100 - 5 * (response.results[i].trending_rank - 1)
                                 + ScoreBonuses(response.results[i])))

\* the twentieth item of a list, with bonuses and a score that is not clamped
TrendingScoreTwentiethItem ==
  /\ op = "calculateTrendingScore" /\ pc = "done"
  /\ response.results[1].trending_rank = 20
  /\ ScoreBonuses(response.results[1]) > 0
  /\ response.results[1].trending_score = 5 + ScoreBonuses(response.results[1])

\* C15: in a trending-movies result of n items trending_rank runs 1..n in
\* list order and popularity never increases along the list.
TrendingRankedByPopularity ==
  (op = "trending-movies" /\ pc = "done" /\ response.status = "ok")
    => /\ \A i \in DOMAIN response.results : response.results[i].trending_rank = i
       /\ \A i, j \in DOMAIN response.results :
            i < j => response.results[i].popularity >= response.results[j].popularity

\* a trending result of three movies that the provider listed in another order
TrendingReordered ==
  /\ op = "trending-movies" /\ pc = "done" /\ response.status = "ok"
  /\ Len(response.results) = 3
  /\ \E p \in DOMAIN fetched :
       /\ fetched[p].ok /\ Len(fetched[p].results) = 3
       /\ fetched[p].results[1].id = response.results[3].id
       /\ fetched[p].results[1].popularity < fetched[p].results[3].popularity

\* C16: whatever page the client asks for, the trending-movies response
\* and the streaming-now response report page 1, in the envelope and in
\* its data.
AggregatesReportPageOne ==
  (op \in {"trending-movies", "streaming-now"} /\ pc = "done"
     /\ response.status = "ok")
    => response.page = 1 /\ response.data_page = 1

\* C17: a combined-upcoming result is in ascending order of the items'
\* release-or-air dates: of two dated items, the one listed first is not
\* dated later than the other.
CombinedSortedByDate ==
  (op = "upcoming-combined" /\ pc = "done" /\ response.status = "ok")
    => \A i, j \in DOMAIN response.results :
         (/\ i < j
          /\ ReleaseOrAirDate(response.results[i]).kind = "day"
          /\ ReleaseOrAirDate(response.results[j]).kind = "day")
           => ReleaseOrAirDate(response.results[i]).day
                <= ReleaseOrAirDate(response.results[j]).day

\* C18: in a combined-upcoming result total_results is the sum of the
\* total_results of the two provider answers and total_pages is the larger
\* of their total_pages.
CombinedTotalsAdd ==
  (op = "upcoming-combined" /\ pc = "done" /\ response.status = "ok")
    => /\ response.total_results = fetched[1].total_results + fetched[2].total_results
       /\ response.total_pages >= fetched[1].total_pages
       /\ response.total_pages >= fetched[2].total_pages
       /\ response.total_pages \in {fetched[1].total_pages, fetched[2].total_pages}

\* a combined result whose sub-results have different, non-zero totals
CombinedTotalsDiffer ==
  /\ op = "upcoming-combined" /\ pc = "done" /\ response.status = "ok"
  /\ fetched[1].total_results > 0 /\ fetched[2].total_results > 0
  /\ fetched[1].total_pages < fetched[2].total_pages
  /\ response.total_results > Len(response.results)

\* C19: a streaming-now result never holds more than 20 items, however
\* many candidates the discovery queries return.
StreamingAtMostTwenty ==
  (op = "streaming-now" /\ pc = "done" /\ response.status = "ok")
    => Len(response.results) <= 20

\* a streaming-now result of 20 items cut from more than 20 candidates
StreamingCutAtTwenty ==
  /\ op = "streaming-now" /\ pc = "done" /\ response.status = "ok"
  /\ Len(response.results) = 20
  /\ Len(StreamingCandidates) > 20
  /\ \E i \in DOMAIN StreamingCandidates :
       /\ StreamingCandidates[i].wp.ok
       /\ isOTTOriginal(StreamingCandidates[i], StreamingCandidates[i].wp)
       /\ RecentlyAdded(StreamingCandidates[i], StreamingCandidates[i].wp)
       /\ StreamingCandidates[i].id \notin Ids(response.results)

\* C20: at every moment, whatever requests have been served, the lookup
\* of every listed (type, key) returns the entry the table was loaded with.
MappingTableStable ==
  \A t \in CategoryTypes : \A k \in AllowList(t) :
    getCategoryMapping(t, k) = CategoryMappingsLiteral[t][k]

\* a category request on an entry with a genres list has been converted
\* and answered, and a further lookup still returns that list
LookupAfterConversion ==
  /\ op \in CategoryTypes /\ pc = "done" /\ response.status = "ok"
  /\ args.key \in DOMAIN CategoryMappingsLiteral[op]
  /\ "genres" \in DOMAIN CategoryMappingsLiteral[op][args.key]
  /\ getCategoryMapping(op, args.key)["genres"]
       = CategoryMappingsLiteral[op][args.key]["genres"]

\* C21 as stated: a genre request for 'action' resolves to filters holding
\* genre id 28 and to the implied media type movie, and a lookup of
\* ('genres', 'bogus') finds nothing.
GenreActionImpliesMovie ==
  /\ (pc # "idle" /\ op = "genres" /\ args.key = "action")
       => /\ 28 \in Range(getCategoryMapping(op, args.key)["genres"])
          /\ getMediaType(op, args.key) = "movie"
  /\ IsNull(getCategoryMapping("genres", "bogus"))

\* C21: a genre request for 'action' resolves to filters holding genre id 28
\* (sent to the provider as with_genres=28) and to no implied media type: the
\* discovery endpoint follows the type of the request, movie unless it says
\* tv.  A request for ('genres', 'bogus') finds no mapping, issues no call and
\* ends in an error.
GenreActionResolves ==
  /\ (pc # "idle" /\ op = "genres" /\ args.key = "action")
       => /\ 28 \in Range(getCategoryMapping(op, args.key)["genres"])
          /\ getMediaType(op, args.key) = "null"
          /\ calls[1].params["with_genres"] = <<"2", "8">>
          /\ calls[1].endpoint =
               (IF args.type = "tv" THEN "/discover/tv" ELSE "/discover/movie")
  /\ IsNull(getCategoryMapping("genres", "bogus"))
  /\ (pc # "idle" /\ op = "genres" /\ args.key = "bogus")
       => (calls = <<>> /\ (pc = "done" => response.status = "error"))

\* the genre 'action' asked for with type=tv is discovered among TV shows
GenreActionServedAsTV ==
  /\ op = "genres" /\ args.key = "action" /\ args.type = "tv" /\ pc = "discover"
  /\ calls[1].endpoint = "/discover/tv"
  /\ calls[1].params["with_genres"] = <<"2", "8">>

\* C22: when the discovery call of a mood, awards, studio, network or genre
\* request has failed, that call is the only provider call the request
\* issued, and the request ends in a category error whose cause is the
\* provider's error.
DiscoveryFailureNotRetried ==
  (op \in CategoryTypes /\ pc = "done" /\ fetched = <<Failed>>)
    => /\ Len(calls) = 1
       /\ response.status = "error"
       /\ response.code = "CATEGORY_SERVICE_ERROR"
       /\ response.originalError = ProviderError

\* a genre request whose one discovery call failed
DiscoveryFailed ==
  /\ op = "genres" /\ pc = "done" /\ fetched = <<Failed>>
  /\ Len(calls) = 1 /\ calls[1].endpoint = "/discover/movie"
  /\ response.message = <<"Failed to fetch", "genres", args.key>>

\* C23: a finished mood, awards, studio, network or genre request whose key
\* is not listed under its type is answered with a 4xx status, and one whose
\* discovery call failed is answered with a 5xx status.
ErrorsSurfaceByClass ==
  (pc = "done" /\ op \in CategoryTypes)
    => /\ (args.key \notin AllowList(op) => HttpStatus(response) \in 400..499)
       /\ (fetched = <<Failed>> => HttpStatus(response) \in 500..599)

\* the release dates a discovery query of streaming now accepts:
\* release_date.gte <= date <= release_date.lte
WindowOf(call) ==
  {day \in (TodayUTC - 40)..(TodayUTC + 1) :
     /\ call.params.release_date_gte.day <= day
     /\ day <= call.params.release_date_lte.day}

InstanceLimit ==
  LET times == requestTimes["categories"]
  IN /\ AdmittedInWindow("categories") <= maxRequestsPerWindow
     /\ \A i \in DOMAIN times :
          Cardinality({j \in DOMAIN times :
                         times[i] - times[j] < windowSizeMs /\ times[j] <= times[i]})
            <= maxRequestsPerWindow

\* at the time suspended callers wake, the timer of one of them is due but
\* has not run yet, and the window already holds 40 admissions again, the
\* last of them recorded at this very instant
WokenTogether ==
  LET times == requestTimes["categories"]
  IN /\ now >= windowSizeMs
     /\ \E w \in BagToSet(sleeping["categories"]) : w <= now
     /\ AdmittedInWindow("categories") = maxRequestsPerWindow
     /\ times # <<>> /\ times[Len(times)] = now

\* C26: with finitely many callers contending on one TMDBService, no caller
\* stays suspended forever: from some point on no caller is waiting, every
\* call that entered enforceRateLimit has recorded its timestamp and returned.
EveryCallerAdmitted == <>[](sleeping["categories"] = EmptyBag)

\* all callers of the request have entered, the window is full and the last
\* two of them are suspended
LastCallersSuspended ==
  /\ pc = "makeRequest" /\ work.queue = <<>>
  /\ BagCardinality(sleeping["categories"]) = 2
  /\ AdmittedInWindow("categories") = maxRequestsPerWindow

\* the detail fetches of the enrichment that have not settled
InFlight == {i \in DOMAIN fetched : fetched[i].state = "pending"}

\* C27: while one enrichment waits for a batch, at most 5 detail fetches are
\* in flight; the fetches started so far are those of the items up to the
\* end of the current batch and no others; and every item before the current
\* batch has settled: it is in the output, with a tagline if it was fetched.
EnrichmentInBatches ==
  (op = "enrichWithTaglines" /\ pc = "batch")
    => LET consumed == Len(args.results) - Len(work.queue)
           started == SelectSeq(SubSeq(args.results, 1, consumed), NeedsDetail)
       IN /\ Cardinality(InFlight) <= maxConcurrent
          /\ Len(fetched) <= maxConcurrent
          /\ calls = [i \in DOMAIN started |-> DetailCall(started[i])]
          /\ Len(work.out) + Len(fetched) = consumed
          /\ \A i \in DOMAIN work.out :
               /\ work.out[i].id = args.results[i].id
               /\ NeedsDetail(args.results[i]) => "tagline" \in DOMAIN work.out[i]

\* the first batch of five has settled and the two fetches of the second
\* batch are in flight
SecondBatchInFlight ==
  /\ op = "enrichWithTaglines" /\ pc = "batch"
  /\ Len(work.out) = maxConcurrent
  /\ Cardinality(InFlight) = 2
  /\ Len(calls) = maxConcurrent + 2

\* C28: every item of a combined-upcoming result is upcoming: it has a
\* release-or-air date, and that date is not earlier than the start of the
\* current day.
CombinedAllUpcoming ==
  (op = "upcoming-combined" /\ pc = "done" /\ response.status = "ok")
    => \A i \in DOMAIN response.results :
         /\ ReleaseOrAirDate(response.results[i]).kind = "day"
         /\ GreaterEq(DateParse(ReleaseOrAirDate(response.results[i])), Today)

\* C29: pages_fetched of a trending-movies response is the number of page
\* fetches that succeeded, so it is below 5 when a page fetch failed.
PagesFetchedCountsSuccesses ==
  (op = "trending-movies" /\ pc = "done" /\ response.status = "ok")
    => response.pages_fetched = Cardinality({i \in DOMAIN fetched : fetched[i].ok})

\* the date a formatted search result is ordered by
ResultDate(item) ==
  FieldOr(item, "releaseDate", FieldOr(item, "firstAirDate", NoDate))

\* the list is in the order the sort option names: of two entries that both
\* have the quantity, the one listed first does not come after the other
OrderedBy(sortBy, results) ==
  \A i, j \in DOMAIN results :
    i < j =>
      LET a == results[i]
          b == results[j]
      IN IF sortBy = "popularity.desc" THEN a.popularity >= b.popularity
         ELSE IF sortBy = "popularity.asc" THEN a.popularity <= b.popularity
         ELSE IF "voteAverage" \in DOMAIN a /\ "voteAverage" \in DOMAIN b
                 /\ sortBy = "vote_average.desc" THEN a.voteAverage >= b.voteAverage
         ELSE IF "voteAverage" \in DOMAIN a /\ "voteAverage" \in DOMAIN b
                 /\ sortBy = "vote_average.asc" THEN a.voteAverage <= b.voteAverage
         ELSE IF ResultDate(a).kind = "day" /\ ResultDate(b).kind = "day"
                 /\ sortBy = "release_date.desc" THEN ResultDate(a).day >= ResultDate(b).day
         ELSE IF ResultDate(a).kind = "day" /\ ResultDate(b).kind = "day"
                 /\ sortBy = "release_date.asc" THEN ResultDate(a).day <= ResultDate(b).day
         ELSE TRUE

\* C30: the results of a search that was asked for with a sortBy value the
\* validation accepts are in the order that value names.
SearchResultsSorted ==
  (op = "search" /\ pc = "done" /\ response.status = "ok"
     /\ args.sortBy \in AcceptedSortOptions)
    => OrderedBy(args.sortBy, response.results)

====
